---------------------------- MODULE Spec2Model ----------------------------
(***************************************************************************)
(* Portfolio-manager backend: the single-file application                  *)
(* (backend/index.py) and the package application (backend/app/...), both  *)
(* talking to one GitHub repository (the file host).                       *)
(*                                                                         *)
(* Text is modelled as a sequence: a Python str that the code splits on    *)
(* "/" is the sequence of its segments ("" is <<"">>, "/projects/a.webp"   *)
(* is <<"", "projects", "a.webp">>); a file's text is the sequence of its  *)
(* JSON tokens.  An Optional value is a sequence of length 0 (None) or 1.  *)
(* A revision SHA is a positive number; 0 stands for None.                 *)
(***************************************************************************)
EXTENDS Integers, Sequences, FiniteSets, TLC

(***************************************************************************)
(* Bounds of the model.                                                    *)
(***************************************************************************)
MaxFaults == 1
MaxRequests == 2
HostLineLen == 4
MaxTime == 8
MaxLogins == 2

(***************************************************************************)
(* Configuration (environment variables), scaled down: the defaults are    *)
(* 60 and 15 minutes.                                                      *)
(***************************************************************************)
JWT_EXPIRATION_MINUTES == 4
JWT_REFRESH_THRESHOLD_MINUTES == 2

None == << >>
Some(x) == << x >>
NoSha == 0

(***************************************************************************)
(* Python helpers.                                                         *)
(***************************************************************************)
\* truthiness of an Optional[str]: None and "" are falsy
Truthy(s) == s # None /\ s # <<"">>

\* dict.get(key) on a project dict: None when the key is missing
Get(p, k) == IF k \in DOMAIN p THEN p[k] ELSE None

\* str.split("/")[-1]
LastSegment(s) == s[Len(s)]

\* str.startswith("public/projects/")
StartsWithPublicProjects(s) ==
    Len(s) >= 3 /\ s[1] = "public" /\ s[2] = "projects"

RECURSIVE SetToSeq(_)
SetToSeq(S) ==
    IF S = {} THEN << >>
    ELSE LET x == CHOOSE y \in S : TRUE IN << x >> \o SetToSeq(S \ {x})

Range(s) == { s[i] : i \in 1..Len(s) }

(***************************************************************************)
(* json.dumps / json.loads on the values the handlers pass: a list of      *)
(* project dicts.  A token is [t, v]: punctuation ("p") or a string        *)
(* literal ("s") whose text is v.  Keys are written in the dict's order.   *)
(***************************************************************************)
KeyOrder == << "name", "imageUrl", "image" >>

Punct(c) == [t |-> "p", v |-> << c >>]
Str(s) == [t |-> "s", v |-> s]

KeysOf(p) == SelectSeq(KeyOrder, LAMBDA k : k \in DOMAIN p)

RECURSIVE DumpItems(_, _)
DumpItems(p, ks) ==
    IF ks = << >> THEN << >>
    ELSE << Str(<< Head(ks) >>), Punct(":"), Str(p[Head(ks)]) >>
         \o (IF Tail(ks) = << >> THEN << >> ELSE << Punct(",") >>)
         \o DumpItems(p, Tail(ks))

DumpDict(p) == << Punct("{") >> \o DumpItems(p, KeysOf(p)) \o << Punct("}") >>

RECURSIVE DumpElems(_)
DumpElems(L) ==
    IF L = << >> THEN << >>
    ELSE DumpDict(Head(L))
         \o (IF Tail(L) = << >> THEN << >> ELSE << Punct(",") >>)
         \o DumpElems(Tail(L))

json_dumps(L) == << Punct("[") >> \o DumpElems(L) \o << Punct("]") >>

\* the parser: each Parse* returns [val, next] (next: index after the value)
RECURSIVE ParseItems(_, _, _)
ParseItems(toks, i, acc) ==
    IF toks[i] = Punct("}") THEN [val |-> acc, next |-> i + 1]
    ELSE IF toks[i] = Punct(",") THEN ParseItems(toks, i + 1, acc)
    ELSE LET k == toks[i].v[1]
             v == toks[i + 2].v
         IN ParseItems(toks, i + 3,
                       [x \in DOMAIN acc \cup {k} |->
                           IF x = k THEN v ELSE acc[x]])

EmptyDict == [x \in {} |-> << >>]

RECURSIVE ParseElems(_, _, _)
ParseElems(toks, i, acc) ==
    IF toks[i] = Punct("]") THEN [val |-> acc, next |-> i + 1]
    ELSE IF toks[i] = Punct(",") THEN ParseElems(toks, i + 1, acc)
    ELSE LET d == ParseItems(toks, i + 1, EmptyDict)
         IN ParseElems(toks, d.next, Append(acc, d.val))

json_loads(toks) == ParseElems(toks, 2, << >>).val

\* json.loads of a text that holds one object whose members are strings or
\* objects
RECURSIVE ParseObject(_, _, _)
ParseObject(toks, i, acc) ==
    IF toks[i] = Punct("}") THEN [val |-> acc, next |-> i + 1]
    ELSE IF toks[i] = Punct(",") THEN ParseObject(toks, i + 1, acc)
    ELSE LET k == toks[i].v[1]
             nested == toks[i + 2] = Punct("{")
             d == ParseObject(toks, i + 3, EmptyDict)
             v == IF nested THEN d.val ELSE toks[i + 2].v
         IN ParseObject(toks, IF nested THEN d.next ELSE i + 3,
                        [x \in DOMAIN acc \cup {k} |->
                            IF x = k THEN v ELSE acc[x]])

json_loads_object(toks) == ParseObject(toks, 2, EmptyDict).val

(***************************************************************************)
(* base64: one symbol per token; the host returns the text broken into     *)
(* lines.  b64decode discards the characters outside the alphabet (the     *)
(* line breaks); the package's _get_file removes "\n" before decoding.     *)
(***************************************************************************)
NL == [t |-> "nl", v |-> << >>, o |-> ""]

b64encode(bytes) ==
    [i \in 1..Len(bytes) |-> [t |-> "b64", v |-> bytes[i].v, o |-> bytes[i].t]]

b64decode(text) ==
    LET syms == SelectSeq(text, LAMBDA c : c.t = "b64")
    IN [i \in 1..Len(syms) |-> [t |-> syms[i].o, v |-> syms[i].v]]

RECURSIVE HostLines(_, _)
HostLines(text, n) ==
    IF text = << >> THEN << >>
    ELSE IF n = HostLineLen THEN << NL >> \o HostLines(text, 0)
    ELSE << Head(text) >> \o HostLines(Tail(text), n + 1)

(***************************************************************************)
(* Inputs.  A project is a dict; imageUrl holds the package's URL shape    *)
(* ("public/projects/<file>") or the single-file application's             *)
(* ("/projects/<file>"); some clients store the URL under "image".         *)
(***************************************************************************)
Admins == {"admin1", "admin2"}
ImageNames == {"a.webp", "b.webp", "c.webp"}

\* the images in the store at the start
StoredNames == {"a.webp", "b.webp"}

pA == [name |-> <<"A">>, imageUrl |-> <<"public", "projects", "a.webp">>]
pB == [name |-> <<"B">>, imageUrl |-> <<"", "projects", "b.webp">>]
pC == [name |-> <<"C">>, image |-> <<"", "projects", "b.webp">>]

ProjectLists == { << >>, << pA >>, << pC >>, << pB, pA >> }
\* what the projects file may hold to begin with
InitialLists == { << pC >>, << pB, pA >> }

ProjectsPath == "GITHUB_PROJECTS_PATH"
ContactsPath == "GITHUB_CONTACTS_PATH"
KnowledgePath == "GITHUB_KNOWLEDGE_PATH/about_me.txt"
SysInsPath == "GITHUB_SYS_INS_PATH"
FilePaths == {ProjectsPath, ContactsPath, KnowledgePath, SysInsPath}

\* the text a ContentSave / ContactSave request carries
TextBody == << Str(<<"text">>) >>

\* the contact objects tried, and json.dumps of one (keys in this order)
ContactKeyOrder == << "email", "phone" >>
Contacts == { [email |-> <<"me@x">>], [email |-> <<"me@x">>, phone |-> <<"1">>] }

DumpContact(contact) ==
    << Punct("{") >>
    \o DumpItems(contact, SelectSeq(ContactKeyOrder, LAMBDA k : k \in DOMAIN contact))
    \o << Punct("}") >>

\* an uploaded file: the extension of its filename, its content type, its
\* size in MiB, whether Pillow can open it, and the picture's width and height
UploadedFile(ext, mime, mib, decodable, w, h) ==
    [ext |-> ext, content_type |-> mime, mib |-> mib, decodable |-> decodable,
     width |-> w, height |-> h]

NoFile == UploadedFile("", "", 0, FALSE, 0, 0)

VARIABLES
    impl,       \* which application is deployed: "index" or "app"
    files,      \* file host: path -> [content, sha, origin]  (sha 0: absent)
    images,     \* file host, image directory: filename -> sha (0: absent)
    commits,    \* number of commits the host has accepted
    faults,     \* upstream failures injected so far
    pc,         \* per admin: where its request stands
    rq,         \* per admin: the request's locals and its history
    resp,       \* per admin: the last response sent (None: none yet)
    tasks,      \* per admin: the request's BackgroundTasks
    activity,   \* the activity_log collection
    loaded,     \* per admin: what the client last loaded (None: nothing)
    nreq,       \* requests issued
    now,        \* the clock, in minutes
    held,       \* the token the client holds (None: none)
    prev,       \* the token the client held before that one
    last,       \* the last request answered, with what it presented
    hist,       \* of the token the client holds: whether it was accepted
                \* inside its refresh window, whether a logout was called with
                \* it (None: not recorded)
    comm,       \* the communication collection: record id -> None or a record
    fn,         \* generate_unique_filename: its arguments and its progress
    gh          \* the last call of the GitHub client: the reply and the outcome

authVars == << now, held, prev, last, hist >>
formVars == << comm, fn, gh >>

vars == << impl, files, images, commits, faults, pc, rq, resp, tasks,
           activity, loaded, nreq, now, held, prev, last, hist, comm, fn, gh >>

NoRequest ==
    [kind |-> "none", path |-> ProjectsPath, body |-> << >>,
     projects |-> << >>, oldProjects |-> None, base |-> -1,
     sha |-> NoSha, read |-> "none", todo |-> {}, cur |-> None,
     curSha |-> NoSha, puts |-> 0, putSha |-> NoSha, putHostSha |-> NoSha,
     putOk |-> FALSE, putChanged |-> FALSE, putStatus |-> 0, dels |-> 0,
     delBeforePut |-> FALSE, cleanFail |-> FALSE, unconditioned |-> FALSE,
     calls |-> 0, input |-> "ok", logged |-> 0, logFail |-> FALSE,
     file |-> NoFile, filename |-> None, size |-> << 0, 0 >>,
     record |-> "", status |-> "", wrote |-> FALSE,
     message |-> << >>, contact |-> None]

\* the ids of communication documents
RecordIds == {"r1", "r2"}

\* nothing sent yet with the token held
NoHistory == [window |-> FALSE, logout |-> FALSE]

\* str(e), the text of an exception, where it is put into a response
ExceptionText == "str(e)"

\* generic_exception_handler: the response for an exception that is not an
\* HTTPException
generic_exception_handler ==
    [status |-> 500, message |-> <<"Internal server error">>]

\* no call of the GitHub client made yet
NoCall ==
    [state |-> "idle", method |-> "", reply |-> << >>,
     error |-> "none", status |-> 0, absent |-> FALSE]

\* no filename generation under way
NoGeneration ==
    [state |-> "idle", project_name |-> << >>, existing |-> {}, attempt |-> 0,
     uid |-> << >>, filename |-> << >>, fallback |-> FALSE]

AbsentFile == [content |-> << >>, sha |-> NoSha, origin |-> << >>]

\* Both admins' clients have loaded the projects page.
Init ==
    /\ impl \in {"index", "app"}
    /\ \E f \in {AbsentFile} \cup
                 { [content |-> json_dumps(L), sha |-> 1, origin |-> L] :
                     L \in InitialLists } :
          /\ files = [p \in FilePaths |-> IF p = ProjectsPath THEN f ELSE AbsentFile]
          /\ loaded = [a \in Admins |->
                         Some([projects |-> f.origin, sha |-> f.sha])]
    /\ images = [n \in ImageNames |-> IF n \in StoredNames THEN 1 ELSE NoSha]
    /\ commits = 1
    /\ faults = 0
    /\ pc = [a \in Admins |-> "idle"]
    /\ rq = [a \in Admins |-> NoRequest]
    /\ resp = [a \in Admins |-> None]
    /\ tasks = [a \in Admins |-> << >>]
    /\ activity = << >>
    /\ nreq = 0
    /\ now = 0
    /\ held = None
    /\ prev = None
    /\ last = None
    /\ hist = None
    /\ comm = [id \in RecordIds |-> None]
    /\ fn = NoGeneration
    /\ gh = NoCall

(***************************************************************************)
(* The file host (GitHub contents API), a black box to this system: a GET  *)
(* answers 404 for an absent file, a PUT or DELETE is conditional on the   *)
(* revision it carries.  A reply is [status, content, sha, rate]; status 0 *)
(* is a transport failure, rate says a 403's message mentions a rate limit.*)
(***************************************************************************)
Reply(st) == [status |-> st, content |-> << >>, sha |-> NoSha, rate |-> FALSE]

HostGetReply(f) ==
    IF f.sha = NoSha THEN Reply(404)
    ELSE [status |-> 200, content |-> HostLines(b64encode(f.content), 0),
          sha |-> f.sha, rate |-> FALSE]

\* PUT: creates when the file is absent and no sha is sent, updates when the
\* sha sent is the current one; 422 for a missing sha, 409 for a stale one
HostPutStatus(cur, sent) ==
    IF cur = NoSha THEN (IF sent = NoSha THEN 201 ELSE 422)
    ELSE IF sent = NoSha THEN 422
    ELSE IF sent = cur THEN 200 ELSE 409

\* DELETE: 404 for an absent file, 409 for a stale sha
HostDeleteStatus(cur, sent) ==
    IF cur = NoSha THEN 404 ELSE IF sent = cur THEN 200 ELSE 409

(***************************************************************************)
(* index.py: the GitHub client.                                            *)
(***************************************************************************)
\* github_request without raise_for_status
github_request_unchecked(reply) ==
    IF reply.status = 0 THEN [raised |-> 500, result |-> None]
    ELSE IF reply.status = 404 THEN [raised |-> 0, result |-> None]
    ELSE [raised |-> 0, result |-> Some(reply)]

\* github_request: what the caller gets for an upstream reply:
\* [raised: the HTTPException status, 0 when none; result: None or the json]
github_request(reply) ==
    IF reply.status = 0 THEN [raised |-> 500, result |-> None]
    ELSE IF reply.status = 404 THEN [raised |-> 0, result |-> None]
    ELSE IF reply.status = 401 THEN [raised |-> 401, result |-> None]
    ELSE IF reply.status = 403
         THEN [raised |-> IF reply.rate THEN 429 ELSE 403, result |-> None]
    ELSE IF reply.status >= 400 THEN [raised |-> reply.status, result |-> None]
    ELSE [raised |-> 0, result |-> Some(reply)]

\* github_get_file: (content, sha), (None, None) for an absent file
github_get_file(reply) ==
    LET r == github_request(reply)
    IN IF r.raised # 0 \/ r.result = None
       THEN [raised |-> r.raised, content |-> None, sha |-> NoSha]
       ELSE [raised |-> 0, content |-> Some(b64decode(r.result[1].content)),
             sha |-> r.result[1].sha]

\* `if sha: data["sha"] = sha` in github_save_file / github_save_binary
github_save_file_sha(sha) == IF sha # NoSha THEN sha ELSE NoSha

\* `if not content` on an Optional[str]
ContentTruthy(c) == c # None /\ c[1] # << >>

(***************************************************************************)
(* app/providers/github/github_provider.py                                 *)
(***************************************************************************)
\* _get_sha: the sha on a 200, None on any other status or any exception
_get_sha(reply) == IF reply.status = 200 THEN reply.sha ELSE NoSha

\* _get_file: "" for a 404, GitHubError (raised) for another non-200
_get_file(reply) ==
    IF reply.status = 404 THEN [raised |-> FALSE, content |-> << >>, sha |-> NoSha]
    ELSE IF reply.status # 200 THEN [raised |-> TRUE, content |-> << >>, sha |-> NoSha]
    ELSE [raised |-> FALSE,
          content |-> b64decode(SelectSeq(reply.content, LAMBDA c : c # NL)),
          sha |-> reply.sha]

(***************************************************************************)
(* GET /api/v1/projects                                                    *)
(***************************************************************************)
Response(st, projects, commit) ==
    [status |-> st, projects |-> projects, commit |-> commit]

\* index.py get_projects
get_projects_response(reply) ==
    LET g == github_get_file(reply)
    IN IF g.raised # 0 THEN Response(g.raised, << >>, NoSha)
       ELSE IF ~ContentTruthy(g.content) THEN Response(200, << >>, NoSha)
       ELSE Response(200, json_loads(g.content[1]), g.sha)

\* GitHubProvider.get_projects behind the router's get_projects
provider_get_projects(reply) ==
    LET g == _get_file(reply)
    IN IF g.raised THEN Response(500, << >>, NoSha)
       ELSE IF g.content = << >> THEN Response(200, << >>, NoSha)
       ELSE Response(200, json_loads(g.content), g.sha)

Upstream(fault, reply) == IF fault THEN Reply(500) ELSE reply

\* what is kept of a response: the handler, the status, and for a projects
\* read the list returned with the saved list the file was written from
Sent(kind, out, f) ==
    [kind |-> kind, status |-> out.status, projects |-> out.projects,
     commit |-> out.commit, origin |-> f.origin, present |-> f.sha # NoSha]

Finish(a, kind, st, commit) ==
    resp' = [resp EXCEPT ![a] =
                Some(Sent(kind, Response(st, << >>, commit), AbsentFile))]

get_projects(a) ==
    /\ pc[a] = "idle"
    /\ nreq < MaxRequests
    /\ \E fault \in BOOLEAN :
          /\ fault => faults < MaxFaults
          /\ LET f == files[ProjectsPath]
                 reply == Upstream(fault, HostGetReply(f))
                 out == IF impl = "index" THEN get_projects_response(reply)
                        ELSE provider_get_projects(reply)
             IN /\ resp' = [resp EXCEPT ![a] = Some(Sent("get_projects", out, f))]
                /\ loaded' = [loaded EXCEPT ![a] =
                       IF out.status = 200
                       THEN Some([projects |-> out.projects, sha |-> f.sha])
                       ELSE @]
          /\ faults' = faults + (IF fault THEN 1 ELSE 0)
    /\ rq' = [rq EXCEPT ![a] = NoRequest]
    /\ nreq' = nreq + 1
    /\ UNCHANGED authVars
    /\ UNCHANGED formVars
    /\ UNCHANGED << impl, files, images, commits, pc, tasks, activity >>

(***************************************************************************)
(* The save handlers of index.py.  Each is: read the file's revision, PUT  *)
(* the new text with it, enqueue the background tasks, answer.  A handler  *)
(* gives up control at each await of the file host, so each call is a step.*)
(***************************************************************************)
\* the request body the admin's client sends for a projects save
ClientOld(a) == IF loaded[a] = None THEN None ELSE Some(loaded[a][1].projects)
ClientBase(a) == IF loaded[a] = None THEN -1 ELSE loaded[a][1].sha

NewRequest(a, kind, path, body, projects, old) ==
    [NoRequest EXCEPT !.kind = kind, !.path = path, !.body = body,
                      !.projects = projects, !.oldProjects = old,
                      !.base = ClientBase(a)]

Begin(a, r) ==
    /\ pc[a] = "idle"
    /\ nreq < MaxRequests
    /\ rq' = [rq EXCEPT ![a] = r]
    /\ nreq' = nreq + 1

\* a save that writes the list the client had loaded
save_projects_content_old(projects, oldProjects) ==
    json_dumps(IF oldProjects = None THEN projects ELSE oldProjects[1])

\* content = json.dumps(data.projects, indent=2)
save_projects_content(projects, oldProjects) == json_dumps(projects)

\* a request answered before its handler has called anything: the input
\* that was refused and the status
Rejected(a, kind, path, input, st) ==
    /\ Begin(a, [NewRequest(a, kind, path, << >>, << >>, None)
                 EXCEPT !.input = input])
    /\ Finish(a, kind, st, NoSha)
    /\ pc' = pc

\* the JSON type of the "projects" member of a save's body
BodyTypes == {"list", "dict"}

\* ProjectsSave: `projects: List[dict]`
ProjectsSave(projects_type) == projects_type = "list"

save_projects(a) ==
    /\ impl = "index"
    /\ \E projects_type \in BodyTypes :
          IF ~ProjectsSave(projects_type)
          THEN \* RequestValidationError, before the handler is called
               Rejected(a, "save_projects", ProjectsPath, "projects_not_a_list", 422)
          ELSE /\ \E L \in ProjectLists :
                     Begin(a, NewRequest(a, "save_projects", ProjectsPath,
                              save_projects_content(L, ClientOld(a)), L, ClientOld(a)))
               /\ pc' = [pc EXCEPT ![a] = "get_sha"]
               /\ resp' = resp
    /\ UNCHANGED authVars
    /\ UNCHANGED formVars
    /\ UNCHANGED << impl, files, images, commits, faults, tasks,
                    activity, loaded >>

\* content = json.dumps(data.contact, indent=2)
save_contacts_content(contact) == DumpContact(contact)

save_contacts(a) ==
    /\ impl = "index"
    /\ \E contact \in Contacts :
          Begin(a, [NewRequest(a, "save_contacts", ContactsPath,
                               save_contacts_content(contact), << >>, None)
                    EXCEPT !.contact = Some(contact)])
    /\ pc' = [pc EXCEPT ![a] = "get_sha"]
    /\ UNCHANGED authVars
    /\ UNCHANGED formVars
    /\ UNCHANGED << impl, files, images, commits, faults, resp, tasks,
                    activity, loaded >>

KNOWLEDGE_CATEGORIES == {"about_me", "tech_stack", "projects", "contact", "misc"}

\* the {category} path parameters tried
Categories == {"about_me", "secrets"}

\* `if category not in KNOWLEDGE_CATEGORIES: raise HTTPException(400, ...)`
save_knowledge_category_valid(category) == category \in KNOWLEDGE_CATEGORIES

save_knowledge_category(a) ==
    /\ impl = "index"
    /\ \E category \in Categories :
          IF ~save_knowledge_category_valid(category)
          THEN Rejected(a, "save_knowledge_category", KnowledgePath,
                        "invalid_category", 400)
          ELSE /\ Begin(a, NewRequest(a, "save_knowledge_category", KnowledgePath,
                                      TextBody, << >>, None))
               /\ pc' = [pc EXCEPT ![a] = "get_sha"]
               /\ resp' = resp
    /\ UNCHANGED authVars
    /\ UNCHANGED formVars
    /\ UNCHANGED << impl, files, images, commits, faults, tasks,
                    activity, loaded >>

save_system_instructions(a) ==
    /\ impl = "index"
    /\ Begin(a, NewRequest(a, "save_system_instructions", SysInsPath,
                           TextBody, << >>, None))
    /\ pc' = [pc EXCEPT ![a] = "get_sha"]
    /\ UNCHANGED authVars
    /\ UNCHANGED formVars
    /\ UNCHANGED << impl, files, images, commits, faults, resp, tasks,
                    activity, loaded >>

\* `_, sha = await github_get_file(path)`
save_get_file(a) ==
    /\ impl = "index"
    /\ pc[a] = "get_sha"
    /\ \E fault \in BOOLEAN :
          /\ fault => faults < MaxFaults
          /\ faults' = faults + (IF fault THEN 1 ELSE 0)
          /\ LET g == github_get_file(Upstream(fault, HostGetReply(files[rq[a].path])))
             IN IF g.raised # 0
                THEN /\ Finish(a, rq[a].kind, g.raised, NoSha)
                     /\ pc' = [pc EXCEPT ![a] = "idle"]
                     /\ rq' = [rq EXCEPT ![a].calls = @ + 1]
                ELSE /\ rq' = [rq EXCEPT ![a].calls = @ + 1,
                                         ![a].sha = g.sha,
                                         ![a].read = IF g.sha = NoSha
                                                     THEN "absent" ELSE "found"]
                     /\ pc' = [pc EXCEPT ![a] = "put"]
                     /\ resp' = resp
    /\ UNCHANGED authVars
    /\ UNCHANGED formVars
    /\ UNCHANGED << impl, files, images, commits, tasks, activity, loaded, nreq >>

\* the image filenames a project list references, as cleanup_unused_images
\* reads them: {p.get("image", "").split("/")[-1] for p in ps if p.get("image")}
index_images(ps) ==
    { LastSegment(Get(ps[i], "image")) :
        i \in { j \in 1..Len(ps) : Truthy(Get(ps[j], "image")) } }

\* to_delete = old_images - new_images
cleanup_unused_images_to_delete(new_projects, old_projects) ==
    index_images(old_projects) \ index_images(new_projects)

\* `if data.oldProjects and GITHUB_PROJECT_IMAGES_PATH` (the path is configured)
ListTruthy(o) == o # None /\ o[1] # << >>

\* the tasks a save handler adds once github_save_file has returned
save_tasks(r) ==
    (IF r.kind = "save_projects" /\ ListTruthy(r.oldProjects)
     THEN << "cleanup_unused_images" >> ELSE << >>)
    \o << "log_activity" >>

\* what a save was asked to store: the contact object or the projects list
Saved(r) == IF r.kind = "save_contacts" THEN r.contact ELSE r.projects

\* the host's part of a PUT: the file after it
HostPut(f, st, content, origin, sha) ==
    IF st \in {200, 201}
    THEN [content |-> b64decode(content), sha |-> sha, origin |-> origin]
    ELSE f

\* the history a PUT leaves in the request
PutSent(r, sent, f, st, changed) ==
    [r EXCEPT !.calls = @ + 1,
              !.puts = @ + 1, !.putSha = sent, !.putHostSha = f.sha,
              !.putOk = st \in {200, 201}, !.putChanged = changed,
              !.putStatus = st,
              !.unconditioned = @ \/ (sent = NoSha /\ r.read # "absent")
                                   \/ (r.read = "found" /\ sent # r.sha)]

\* `result = await github_save_file(path, content, message, sha)` and the
\* rest of the handler
save_put(a) ==
    /\ impl = "index"
    /\ pc[a] = "put"
    /\ \E fault \in {0, 404, 500} :
          /\ fault # 0 => faults < MaxFaults
          /\ faults' = faults + (IF fault # 0 THEN 1 ELSE 0)
          /\ LET r == rq[a]
                 f == files[r.path]
                 sent == github_save_file_sha(r.sha)
                 st == IF fault # 0 THEN fault ELSE HostPutStatus(f.sha, sent)
                 g == github_request(Reply(st))
                 after == HostPut(f, st, b64encode(r.body), Saved(r), commits + 1)
                 r2 == PutSent(r, sent, f, st, after # f)
             IN /\ files' = [files EXCEPT ![r.path] = after]
                /\ commits' = IF after # f THEN commits + 1 ELSE commits
                /\ IF g.raised # 0
                   THEN \* HTTPException out of github_request
                        /\ Finish(a, r.kind, g.raised, NoSha)
                        /\ rq' = [rq EXCEPT ![a] = r2]
                        /\ tasks' = tasks
                        /\ pc' = [pc EXCEPT ![a] = "idle"]
                   ELSE IF g.result = None
                   THEN \* a 404: result is None, result.get raises, the
                        \* tasks added are dropped with the failed request
                        /\ Finish(a, r.kind, generic_exception_handler.status, NoSha)
                        /\ rq' = [rq EXCEPT ![a] =
                              [r2 EXCEPT !.message = generic_exception_handler.message]]
                        /\ tasks' = tasks
                        /\ pc' = [pc EXCEPT ![a] = "idle"]
                   ELSE /\ Finish(a, r.kind, 200, commits + 1)
                        /\ rq' = [rq EXCEPT ![a] =
                              [r2 EXCEPT !.todo =
                                 IF r.kind = "save_projects" /\ ListTruthy(r.oldProjects)
                                 THEN cleanup_unused_images_to_delete(
                                          r.projects, r.oldProjects[1])
                                 ELSE {}]]
                        /\ tasks' = [tasks EXCEPT ![a] = save_tasks(r)]
                        /\ pc' = [pc EXCEPT ![a] = "bg"]
    /\ UNCHANGED authVars
    /\ UNCHANGED formVars
    /\ UNCHANGED << impl, images, activity, loaded, nreq >>

(***************************************************************************)
(* Background tasks: run one after the other once the response is sent.    *)
(***************************************************************************)
TaskDone(a) ==
    /\ tasks' = [tasks EXCEPT ![a] = Tail(@)]
    /\ pc' = [pc EXCEPT ![a] = IF Tail(tasks[a]) = << >> THEN "idle" ELSE "bg"]

\* cleanup_unused_images, one filename: `files = await github_list_directory`
\* and the search of the listing; an exception is logged and the loop goes on
cleanup_unused_images_list(a) ==
    /\ pc[a] = "bg"
    /\ Head(tasks[a]) = "cleanup_unused_images"
    /\ IF rq[a].todo = {}
       THEN /\ TaskDone(a)
            /\ UNCHANGED << rq, faults >>
       ELSE \E name \in rq[a].todo : \E fault \in BOOLEAN :
               /\ fault => faults < MaxFaults
               /\ faults' = faults + (IF fault THEN 1 ELSE 0)
               /\ IF ~fault /\ name \in ImageNames /\ images[name] # NoSha
                  THEN /\ rq' = [rq EXCEPT ![a].calls = @ + 1,
                                           ![a].cur = Some(name),
                                           ![a].curSha = images[name]]
                       /\ pc' = [pc EXCEPT ![a] = "bg_delete"]
                  ELSE /\ rq' = [rq EXCEPT ![a].calls = @ + 1,
                                           ![a].todo = @ \ {name},
                                           ![a].cleanFail = @ \/ fault]
                       /\ pc' = pc
               /\ tasks' = tasks
    /\ UNCHANGED authVars
    /\ UNCHANGED formVars
    /\ UNCHANGED << impl, files, images, commits, resp, activity, loaded, nreq >>

\* the host's part of a DELETE: the image directory after it
HostDelete(name, st) ==
    IF st = 200 THEN [images EXCEPT ![name] = NoSha] ELSE images

\* `await github_delete_file(path, message, f["sha"])`
cleanup_unused_images_delete(a) ==
    /\ pc[a] = "bg_delete"
    /\ \E fault \in BOOLEAN :
          /\ fault => faults < MaxFaults
          /\ faults' = faults + (IF fault THEN 1 ELSE 0)
          /\ LET r == rq[a]
                 name == r.cur[1]
                 st == IF fault THEN 500 ELSE HostDeleteStatus(images[name], r.curSha)
                 g == github_request(Reply(st))
             IN /\ images' = HostDelete(name, st)
                /\ rq' = [rq EXCEPT ![a].calls = @ + 1,
                                    ![a].todo = @ \ {name}, ![a].cur = None,
                                    ![a].curSha = NoSha, ![a].dels = @ + 1,
                                    ![a].delBeforePut = @ \/ ~r.putOk,
                                    ![a].cleanFail = @ \/ g.raised # 0]
    /\ pc' = [pc EXCEPT ![a] = "bg"]
    /\ UNCHANGED authVars
    /\ UNCHANGED formVars
    /\ UNCHANGED << impl, files, commits, resp, tasks, activity, loaded, nreq >>

ActivityType(kind) ==
    CASE kind = "save_projects" -> "projects_updated"
      [] kind = "save_contacts" -> "contacts_updated"
      [] kind = "save_knowledge_category" -> "knowledge_updated"
      [] kind = "update_communication_status" -> "communication_updated"
      [] kind = "delete_communication" -> "communication_deleted"
      [] OTHER -> "system_instructions_updated"

\* log_activity: the add to the activity_log collection; a failure is logged
log_activity(a) ==
    /\ pc[a] = "bg"
    /\ Head(tasks[a]) = "log_activity"
    /\ \E fault \in BOOLEAN :
          /\ fault => faults < MaxFaults
          /\ faults' = faults + (IF fault THEN 1 ELSE 0)
          /\ activity' = IF fault THEN activity
                         ELSE Append(activity, [type |-> ActivityType(rq[a].kind),
                                                user_id |-> a])
          /\ rq' = [rq EXCEPT ![a].calls = @ + 1,
                              ![a].logged = @ + (IF fault THEN 0 ELSE 1),
                              ![a].logFail = @ \/ fault]
    /\ TaskDone(a)
    /\ UNCHANGED authVars
    /\ UNCHANGED formVars
    /\ UNCHANGED << impl, files, images, commits, resp, loaded, nreq >>

(***************************************************************************)
(* The package application: app/routers/projects.py over                   *)
(* app/providers/github/github_provider.py.                                *)
(***************************************************************************)
\* {p.get("imageUrl") for p in ps
\*    if p.get("imageUrl") and p["imageUrl"].startswith("public/projects/")}
router_image_urls(ps) ==
    { Get(ps[i], "imageUrl") :
        i \in { j \in 1..Len(ps) :
                  /\ Truthy(Get(ps[j], "imageUrl"))
                  /\ StartsWithPublicProjects(Get(ps[j], "imageUrl")) } }

\* images_to_delete = old_image_urls - new_image_urls
_cleanup_deleted_images_to_delete(new_projects, old_projects) ==
    router_image_urls(old_projects) \ router_image_urls(new_projects)

\* content = json.dumps(projects, indent=4, ensure_ascii=False)
provider_save_projects_content(projects) == json_dumps(projects)

\* a cleanup whose exception leaves the handler
_cleanup_deleted_images_reraise == "raised"

\* what the router does with an exception out of one delete_image call:
\* "logged" (the loop goes on) or "raised" (out of the handler)
_cleanup_deleted_images_except == "logged"

\* save_projects of the router, up to its first call of the file host:
\* `if old_projects: await _cleanup_deleted_images(projects, old_projects)`
\* `isinstance(projects, list)` in the router's save_projects
router_projects_isinstance_list(projects_type) == projects_type = "list"

router_save_projects(a) ==
    /\ impl = "app"
    /\ \E projects_type \in BodyTypes :
          IF ~router_projects_isinstance_list(projects_type)
          THEN \* raise HTTPException(400, "Projects must be a list")
               Rejected(a, "save_projects", ProjectsPath, "projects_not_a_list", 400)
          ELSE \E L \in ProjectLists :
                  LET old == ClientOld(a)
                      todo == IF ListTruthy(old)
                              THEN _cleanup_deleted_images_to_delete(L, old[1]) ELSE {}
                  IN /\ Begin(a, [NewRequest(a, "save_projects", ProjectsPath,
                                         provider_save_projects_content(L), L, old)
                                  EXCEPT !.todo = todo])
                     /\ pc' = [pc EXCEPT ![a] =
                                  IF todo = {} THEN "get_sha" ELSE "cleanup"]
                     /\ resp' = resp
    /\ UNCHANGED authVars
    /\ UNCHANGED formVars
    /\ UNCHANGED << impl, files, images, commits, faults, tasks,
                    activity, loaded >>

AfterCleanup(a, todo) == IF todo = {} THEN "get_sha" ELSE "cleanup"

\* a delete_image that raises for a file it does not find
delete_image_not_found_raises == "GitHubError"

\* `if not sha: ... return {"sha": None, "success": True}` in delete_image
delete_image_without_sha == "success"

\* delete_image, its read: `sha = await self._get_sha(path)`; without a sha
\* the deletion is skipped and reported as a success
delete_image_get_sha(a) ==
    /\ impl = "app"
    /\ pc[a] = "cleanup"
    /\ \E url \in rq[a].todo : \E fault \in BOOLEAN :
          /\ fault => faults < MaxFaults
          /\ faults' = faults + (IF fault THEN 1 ELSE 0)
          /\ LET name == LastSegment(url)
                 cur == IF name \in ImageNames THEN images[name] ELSE NoSha
                 sha == _get_sha(Upstream(fault,
                            IF cur = NoSha THEN Reply(404)
                            ELSE [Reply(200) EXCEPT !.sha = cur]))
             IN IF sha = NoSha
                THEN /\ rq' = [rq EXCEPT ![a].calls = @ + 1,
                                         ![a].todo = @ \ {url},
                                         ![a].cleanFail =
                                            \/ @
                                            \/ fault
                                            \/ delete_image_without_sha # "success"]
                     /\ pc' = [pc EXCEPT ![a] = AfterCleanup(a, rq[a].todo \ {url})]
                ELSE /\ rq' = [rq EXCEPT ![a].calls = @ + 1,
                                         ![a].cur = Some(url), ![a].curSha = sha]
                     /\ pc' = [pc EXCEPT ![a] = "cleanup_delete"]
    /\ UNCHANGED authVars
    /\ UNCHANGED formVars
    /\ UNCHANGED << impl, files, images, commits, resp, tasks, activity,
                    loaded, nreq >>

\* delete_image, its DELETE: a status other than 200 and 204 is a
\* GitHubError, which _cleanup_deleted_images logs
delete_image_delete(a) ==
    /\ impl = "app"
    /\ pc[a] = "cleanup_delete"
    /\ \E fault \in BOOLEAN :
          /\ fault => faults < MaxFaults
          /\ faults' = faults + (IF fault THEN 1 ELSE 0)
          /\ LET r == rq[a]
                 url == r.cur[1]
                 name == LastSegment(url)
                 st == IF fault THEN 500 ELSE HostDeleteStatus(images[name], r.curSha)
                 failed == st \notin {200, 204}
                 r2 == [r EXCEPT !.calls = @ + 1,
                                 !.todo = @ \ {url}, !.cur = None,
                                 !.curSha = NoSha, !.dels = @ + 1,
                                 !.delBeforePut = @ \/ (st = 200 /\ ~r.putOk),
                                 !.cleanFail = @ \/ failed]
             IN /\ images' = HostDelete(name, st)
                /\ rq' = [rq EXCEPT ![a] = r2]
                /\ IF failed /\ _cleanup_deleted_images_except = "raised"
                   THEN /\ Finish(a, r.kind, 500, NoSha)
                        /\ pc' = [pc EXCEPT ![a] = "idle"]
                   ELSE /\ resp' = resp
                        /\ pc' = [pc EXCEPT ![a] = AfterCleanup(a, r2.todo)]
    /\ UNCHANGED authVars
    /\ UNCHANGED formVars
    /\ UNCHANGED << impl, files, commits, tasks, activity, loaded, nreq >>

\* _save_file, its read: `sha = await self._get_sha(path)`
_save_file_get_sha(a) ==
    /\ impl = "app"
    /\ pc[a] = "get_sha"
    /\ \E fault \in BOOLEAN :
          /\ fault => faults < MaxFaults
          /\ faults' = faults + (IF fault THEN 1 ELSE 0)
          /\ LET f == files[rq[a].path]
                 sha == _get_sha(Upstream(fault, HostGetReply(f)))
             IN rq' = [rq EXCEPT ![a].calls = @ + 1,
                                 ![a].sha = sha,
                                 ![a].read = IF fault THEN "failed"
                                             ELSE IF f.sha = NoSha THEN "absent"
                                             ELSE "found"]
    /\ pc' = [pc EXCEPT ![a] = "put"]
    /\ UNCHANGED authVars
    /\ UNCHANGED formVars
    /\ UNCHANGED << impl, files, images, commits, resp, tasks, activity,
                    loaded, nreq >>

\* _save_file, its PUT (a status other than 200 and 201 is a GitHubError),
\* and the rest of the router's save_projects
_save_file_put(a) ==
    /\ impl = "app"
    /\ pc[a] = "put"
    /\ \E fault \in {0, 404, 500} :
          /\ fault # 0 => faults < MaxFaults
          /\ faults' = faults + (IF fault # 0 THEN 1 ELSE 0)
          /\ LET r == rq[a]
                 f == files[r.path]
                 sent == github_save_file_sha(r.sha)
                 st == IF fault # 0 THEN fault ELSE HostPutStatus(f.sha, sent)
                 after == HostPut(f, st, b64encode(r.body), Saved(r), commits + 1)
                 r2 == PutSent(r, sent, f, st, after # f)
             IN /\ files' = [files EXCEPT ![r.path] = after]
                /\ commits' = IF after # f THEN commits + 1 ELSE commits
                /\ rq' = [rq EXCEPT ![a] = r2]
                /\ IF st \notin {200, 201}
                   THEN /\ Finish(a, r.kind, 500, NoSha)
                        /\ tasks' = tasks
                        /\ pc' = [pc EXCEPT ![a] = "idle"]
                   ELSE /\ Finish(a, r.kind, 200, commits + 1)
                        /\ tasks' = [tasks EXCEPT ![a] = << "log_activity" >>]
                        /\ pc' = [pc EXCEPT ![a] = "bg"]
    /\ UNCHANGED authVars
    /\ UNCHANGED formVars
    /\ UNCHANGED << impl, images, activity, loaded, nreq >>

(***************************************************************************)
(* POST /api/v1/projects/upload-image: index.py, and app/routers/projects.py*)
(* over app/services/image_service.py and the provider.                    *)
(***************************************************************************)
ALLOWED_EXTENSIONS == {"jpg", "jpeg", "png", "gif", "webp", "bmp"}
ALLOWED_MIME_TYPES == {"image/jpeg", "image/png", "image/webp", "image/gif"}

\* ALLOWED_EXTENSIONS of the service (no function reads it)
service_ALLOWED_EXTENSIONS == {"jpg", "jpeg", "png", "webp", "gif"}

\* sizes in MiB: 10 * 1024 * 1024 in index.py, 2 * 1024 * 1024 in the service
MAX_IMAGE_SIZE == 10
service_MAX_IMAGE_SIZE == 2

\* convert_to_webp(file, max_size=1200) in index.py
max_size == 1200

\* the files tried
Files ==
    { UploadedFile("png", "image/png", 1, TRUE, 800, 600),
      UploadedFile("png", "image/png", 1, TRUE, 2400, 1201),
      UploadedFile("jpg", "image/jpeg", 1, TRUE, 5000, 1),
      UploadedFile("exe", "application/octet-stream", 1, FALSE, 0, 0),
      UploadedFile("bmp", "image/bmp", 1, TRUE, 640, 480),
      UploadedFile("png", "image/png", 3, TRUE, 1200, 1300),
      UploadedFile("png", "image/png", 11, TRUE, 800, 600),
      UploadedFile("gif", "image/gif", 1, FALSE, 0, 0),
      UploadedFile("exe", "image/png", 1, TRUE, 800, 600) }

Max(x, y) == IF x >= y THEN x ELSE y

\* a validate_image that lets every file through
validate_image_any(file) == TRUE

\* validate_image of index.py: the extension of the filename
validate_image(file) == file.ext # "" /\ file.ext \in ALLOWED_EXTENSIONS

\* validate_image of the service: the content type
service_validate_image(file) == file.content_type \in ALLOWED_MIME_TYPES

\* convert_to_webp of index.py: [raised, input, size]; raised is 0, the
\* HTTPException's status, or 500 for an exception out of Pillow (a file it
\* cannot open, a resize to an empty picture)
convert_to_webp(file) ==
    IF file.mib > MAX_IMAGE_SIZE
    THEN [raised |-> 400, input |-> "oversize", size |-> << 0, 0 >>,
          detail |-> <<"File too large. Max size: 10MB">>]
    ELSE IF ~file.decodable
    THEN [raised |-> generic_exception_handler.status, input |-> "undecodable",
          size |-> << 0, 0 >>, detail |-> generic_exception_handler.message]
    ELSE IF Max(file.width, file.height) > max_size
    THEN LET longer == Max(file.width, file.height)
             new_size == << (file.width * max_size) \div longer,
                            (file.height * max_size) \div longer >>
         IN IF new_size[1] = 0 \/ new_size[2] = 0
            THEN [raised |-> generic_exception_handler.status, input |-> "ok",
                  size |-> << 0, 0 >>, detail |-> generic_exception_handler.message]
            ELSE [raised |-> 0, input |-> "ok", size |-> new_size, detail |-> << >>]
    ELSE [raised |-> 0, input |-> "ok", size |-> << file.width, file.height >>,
          detail |-> << >>]

\* convert_to_webp of the service: no resize; every exception becomes a 400
service_convert_to_webp(file) ==
    IF file.mib > service_MAX_IMAGE_SIZE
    THEN [raised |-> 400, input |-> "oversize", size |-> << 0, 0 >>,
          detail |-> <<"File size exceeds 2 MB limit">>]
    ELSE IF ~file.decodable
    THEN [raised |-> 400, input |-> "undecodable", size |-> << 0, 0 >>,
          detail |-> <<"Failed to process image: ", ExceptionText>>]
    ELSE [raised |-> 0, input |-> "ok", size |-> << file.width, file.height >>,
          detail |-> << >>]

\* the handler up to its first call of the file host: validation and
\* transcoding
upload_project_image(a) ==
    /\ \E file \in Files :
          LET type_ok == IF impl = "index" THEN validate_image(file)
                         ELSE service_validate_image(file)
              c == IF impl = "index" THEN convert_to_webp(file)
                   ELSE service_convert_to_webp(file)
              r == [NewRequest(a, "upload_project_image", ProjectsPath,
                               << >>, << >>, None) EXCEPT !.file = file]
          IN IF ~type_ok
             THEN /\ Begin(a, [r EXCEPT !.input = "disallowed_type"])
                  /\ Finish(a, r.kind, 400, NoSha)
                  /\ pc' = pc
             ELSE IF c.raised # 0
             THEN /\ Begin(a, [r EXCEPT !.input = c.input, !.message = c.detail])
                  /\ Finish(a, r.kind, c.raised, NoSha)
                  /\ pc' = pc
             ELSE /\ Begin(a, [r EXCEPT !.size = c.size])
                  /\ resp' = resp
                  /\ pc' = [pc EXCEPT ![a] = IF impl = "index" THEN "up_name"
                                             ELSE "up_list"]
    /\ UNCHANGED authVars
    /\ UNCHANGED formVars
    /\ UNCHANGED << impl, files, images, commits, faults, tasks, activity, loaded >>

\* generate_image_filename: slug and secrets.token_hex(4); then the PUT of
\* github_save_binary, sent without a sha; its result is not looked at
upload_github_save_binary(a) ==
    /\ impl = "index"
    /\ pc[a] = "up_name"
    /\ \E filename \in ImageNames : \E fault \in {0, 404, 500} :
          /\ fault # 0 => faults < MaxFaults
          /\ faults' = faults + (IF fault # 0 THEN 1 ELSE 0)
          /\ LET r == [rq[a] EXCEPT !.filename = Some(filename)]
                 cur == images[filename]
                 sent == github_save_file_sha(NoSha)
                 st == IF fault # 0 THEN fault ELSE HostPutStatus(cur, sent)
                 g == github_request(Reply(st))
                 stored == st \in {200, 201}
             IN /\ images' = IF stored THEN [images EXCEPT ![filename] = commits + 1]
                             ELSE images
                /\ commits' = IF stored THEN commits + 1 ELSE commits
                /\ rq' = [rq EXCEPT ![a] = PutSent(r, sent, [sha |-> cur], st, stored)]
                /\ Finish(a, r.kind, IF g.raised # 0 THEN g.raised ELSE 200, NoSha)
    /\ pc' = [pc EXCEPT ![a] = "idle"]
    /\ UNCHANGED authVars
    /\ UNCHANGED formVars
    /\ UNCHANGED << impl, files, tasks, activity, loaded, nreq >>

\* list_images: the names in the directory, [] for any failure
list_images(fault) ==
    IF fault THEN {} ELSE { n \in ImageNames : images[n] # NoSha }

\* the names generate_unique_filename can return for a listing: a drawn
\* name that is not listed, or after ten listed draws the unchecked fallback
GeneratedNames(existing) ==
    { n \in ImageNames : n \notin existing }
        \cup (IF existing # {} THEN ImageNames ELSE {})

\* `existing_images = await github_provider.list_images()` and
\* `filename = generate_unique_filename(projectName, existing_images)`
upload_list_images(a) ==
    /\ impl = "app"
    /\ pc[a] = "up_list"
    /\ \E fault \in BOOLEAN :
          /\ fault => faults < MaxFaults
          /\ faults' = faults + (IF fault THEN 1 ELSE 0)
          /\ \E filename \in GeneratedNames(list_images(fault)) :
                rq' = [rq EXCEPT ![a].calls = @ + 1, ![a].filename = Some(filename)]
    /\ pc' = [pc EXCEPT ![a] = "up_get_sha"]
    /\ UNCHANGED authVars
    /\ UNCHANGED formVars
    /\ UNCHANGED << impl, files, images, commits, resp, tasks, activity,
                    loaded, nreq >>

\* upload_image, its read: `sha = await self._get_sha(path)`
upload_image_get_sha(a) ==
    /\ impl = "app"
    /\ pc[a] = "up_get_sha"
    /\ \E fault \in BOOLEAN :
          /\ fault => faults < MaxFaults
          /\ faults' = faults + (IF fault THEN 1 ELSE 0)
          /\ LET cur == images[rq[a].filename[1]]
                 sha == _get_sha(Upstream(fault,
                            IF cur = NoSha THEN Reply(404)
                            ELSE [Reply(200) EXCEPT !.sha = cur]))
             IN rq' = [rq EXCEPT ![a].calls = @ + 1,
                                 ![a].sha = sha,
                                 ![a].read = IF fault THEN "failed"
                                             ELSE IF cur = NoSha THEN "absent"
                                             ELSE "found"]
    /\ pc' = [pc EXCEPT ![a] = "up_put"]
    /\ UNCHANGED authVars
    /\ UNCHANGED formVars
    /\ UNCHANGED << impl, files, images, commits, resp, tasks, activity,
                    loaded, nreq >>

\* upload_image, its PUT (with the sha when the file exists), and the rest
\* of the router's handler: any exception becomes a 500
upload_image_put(a) ==
    /\ impl = "app"
    /\ pc[a] = "up_put"
    /\ \E fault \in {0, 500} :
          /\ fault # 0 => faults < MaxFaults
          /\ faults' = faults + (IF fault # 0 THEN 1 ELSE 0)
          /\ LET r == rq[a]
                 filename == r.filename[1]
                 cur == images[filename]
                 sent == github_save_file_sha(r.sha)
                 st == IF fault # 0 THEN fault ELSE HostPutStatus(cur, sent)
                 stored == st \in {200, 201}
             IN /\ images' = IF stored THEN [images EXCEPT ![filename] = commits + 1]
                             ELSE images
                /\ commits' = IF stored THEN commits + 1 ELSE commits
                /\ rq' = [rq EXCEPT ![a] = PutSent(r, sent, [sha |-> cur], st, stored)]
                /\ Finish(a, r.kind, IF stored THEN 200 ELSE 500, NoSha)
    /\ pc' = [pc EXCEPT ![a] = "idle"]
    /\ UNCHANGED authVars
    /\ UNCHANGED formVars
    /\ UNCHANGED << impl, files, tasks, activity, loaded, nreq >>

(***************************************************************************)
(* The communication routes of index.py over the document database.  A     *)
(* document's update fails when the document does not exist; its delete    *)
(* does not.                                                               *)
(***************************************************************************)
Record(name, email, message, status, created_at, updated_at) ==
    [name |-> name, email |-> email, message |-> message, status |-> status,
     created_at |-> created_at, updated_at |-> updated_at]

\* the bodies tried on the public form: [name, email, message]
Forms ==
    { [name |-> "Ana", email |-> "ana@x.com", message |-> "Hi"],
      [name |-> "", email |-> "ana@x.com", message |-> "Hi"],
      [name |-> "Ana", email |-> "ana", message |-> "Hi"] }

\* the status values tried
Statuses == {"new", "done", "dismissed", "archived", ""}

\* CommunicationSubmit: name and message of at least one character, an
\* e-mail address (those tried contain an "@" or do not)
CommunicationSubmit(form) ==
    /\ form.name # ""
    /\ form.message # ""
    /\ form.email = "ana@x.com"

\* a StatusUpdate without the pattern
StatusUpdate_any(status) == TRUE

\* StatusUpdate: pattern "^(new|done|dismissed)$"
StatusUpdate(status) == status \in {"new", "done", "dismissed"}

\* an update that writes the whole document anew
doc_ref_set(record, status, t) ==
    Record(record.name, record.email, record.message, status, t, t)

\* `doc_ref.update({"status": data.status, "updated_at": now})`
doc_ref_update(record, status, t) ==
    [record EXCEPT !.status = status, !.updated_at = t]

\* POST /api/v1/communication/submit, public: `doc_ref.set({...})` on a new
\* document
submit_communication ==
    /\ nreq < MaxRequests
    /\ nreq' = nreq + 1
    /\ \E form \in Forms : \E id \in RecordIds : \E fault \in BOOLEAN :
          /\ fault => faults < MaxFaults
          /\ comm[id] = None
          /\ IF ~CommunicationSubmit(form)
             THEN ~fault /\ comm' = comm /\ faults' = faults
             ELSE /\ faults' = faults + (IF fault THEN 1 ELSE 0)
                  /\ comm' = IF fault THEN comm
                             ELSE [comm EXCEPT ![id] =
                                     Some(Record(form.name, form.email, form.message,
                                                 "new", now, now))]
    /\ UNCHANGED authVars
    /\ UNCHANGED << fn, gh >>
    /\ UNCHANGED << impl, files, images, commits, pc, rq, resp, tasks,
                    activity, loaded >>

\* the request of an admin's communication route
CommunicationRequest(a, kind, record_id, status) ==
    [NewRequest(a, kind, ProjectsPath, << >>, << >>, None)
     EXCEPT !.record = record_id, !.status = status]

\* what the handler does once its database call has been answered: an
\* exception ends the request with the generic 500; otherwise log_activity
\* is added to the background tasks and the success response returned
AfterDatabaseCall(a, r, raised) ==
    /\ rq' = [rq EXCEPT ![a] = [r EXCEPT !.calls = @ + 1, !.wrote = ~raised]]
    /\ nreq' = nreq + 1
    /\ Finish(a, r.kind, IF raised THEN 500 ELSE 200, NoSha)
    /\ tasks' = [tasks EXCEPT ![a] = IF raised THEN << >> ELSE << "log_activity" >>]
    /\ pc' = [pc EXCEPT ![a] = IF raised THEN "idle" ELSE "bg"]

\* PATCH /api/v1/communication/{record_id}/status
update_communication_status(a) ==
    /\ impl = "index"
    /\ \E record_id \in RecordIds : \E status \in Statuses :
          LET r == CommunicationRequest(a, "update_communication_status",
                                        record_id, status)
          IN IF ~StatusUpdate(status)
             THEN \* RequestValidationError, before the handler is called
                  /\ Begin(a, [r EXCEPT !.input = "invalid_status"])
                  /\ Finish(a, r.kind, 422, NoSha)
                  /\ UNCHANGED << pc, tasks, comm, faults >>
             ELSE /\ pc[a] = "idle"
                  /\ nreq < MaxRequests
                  /\ \E fault \in BOOLEAN :
                        /\ fault => faults < MaxFaults
                        /\ faults' = faults + (IF fault THEN 1 ELSE 0)
                        /\ LET raised == fault \/ comm[record_id] = None
                           IN /\ comm' = IF raised THEN comm
                                         ELSE [comm EXCEPT ![record_id] =
                                                 Some(doc_ref_update(@[1], status, now))]
                              /\ AfterDatabaseCall(a, r, raised)
    /\ UNCHANGED authVars
    /\ UNCHANGED << fn, gh >>
    /\ UNCHANGED << impl, files, images, commits, activity, loaded >>

\* DELETE /api/v1/communication/{record_id}
delete_communication(a) ==
    /\ impl = "index"
    /\ pc[a] = "idle"
    /\ nreq < MaxRequests
    /\ \E record_id \in RecordIds : \E fault \in BOOLEAN :
          /\ fault => faults < MaxFaults
          /\ faults' = faults + (IF fault THEN 1 ELSE 0)
          /\ comm' = IF fault THEN comm ELSE [comm EXCEPT ![record_id] = None]
          /\ AfterDatabaseCall(a, CommunicationRequest(a, "delete_communication",
                                                       record_id, ""), fault)
    /\ UNCHANGED authVars
    /\ UNCHANGED << fn, gh >>
    /\ UNCHANGED << impl, files, images, commits, activity, loaded >>

(***************************************************************************)
(* The contacts file: GET /api/v1/contacts and the save, in index.py and   *)
(* in GitHubProvider.                                                      *)
(***************************************************************************)
ContactsResponse(st, contact, commit) ==
    [contact |-> contact] @@ Response(st, << >>, commit)

\* index.py get_contacts: `data.get("contact", {})` on the parsed object
get_contacts_response(reply) ==
    LET g == github_get_file(reply)
    IN IF g.raised # 0 THEN ContactsResponse(g.raised, EmptyDict, NoSha)
       ELSE IF ~ContentTruthy(g.content) THEN ContactsResponse(200, EmptyDict, NoSha)
       ELSE LET data == json_loads_object(g.content[1])
            IN ContactsResponse(200, IF "contact" \in DOMAIN data
                                     THEN data["contact"] ELSE EmptyDict, g.sha)

\* GitHubProvider.get_contacts: the default contact for an empty file,
\* `contacts.get("contact", {})` otherwise
provider_get_contacts(reply) ==
    LET g == _get_file(reply)
    IN IF g.raised THEN ContactsResponse(500, EmptyDict, NoSha)
       ELSE IF g.content = << >>
       THEN ContactsResponse(200, [email |-> << >>, socials |-> EmptyDict], NoSha)
       ELSE LET contacts == json_loads_object(g.content)
            IN ContactsResponse(200, IF "contact" \in DOMAIN contacts
                                     THEN contacts["contact"] ELSE EmptyDict, g.sha)

get_contacts(a) ==
    /\ pc[a] = "idle"
    /\ nreq < MaxRequests
    /\ \E fault \in BOOLEAN :
          /\ fault => faults < MaxFaults
          /\ LET f == files[ContactsPath]
                 reply == Upstream(fault, HostGetReply(f))
                 out == IF impl = "index" THEN get_contacts_response(reply)
                        ELSE provider_get_contacts(reply)
             IN resp' = [resp EXCEPT ![a] =
                            Some([contact |-> out.contact] @@
                                 Sent("get_contacts", out, f))]
          /\ faults' = faults + (IF fault THEN 1 ELSE 0)
    /\ rq' = [rq EXCEPT ![a] = NoRequest]
    /\ nreq' = nreq + 1
    /\ UNCHANGED authVars
    /\ UNCHANGED formVars
    /\ UNCHANGED << impl, files, images, commits, pc, tasks, activity, loaded >>

\* content = json.dumps({"contact": contact}, indent=4, ensure_ascii=False)
provider_save_contacts_content(contact) ==
    << Punct("{"), Str(<< "contact" >>), Punct(":") >>
    \o DumpContact(contact) \o << Punct("}") >>

\* GitHubProvider.save_contacts, up to its call of _save_file
provider_save_contacts(a) ==
    /\ impl = "app"
    /\ \E contact \in Contacts :
          Begin(a, [NewRequest(a, "save_contacts", ContactsPath,
                               provider_save_contacts_content(contact), << >>, None)
                    EXCEPT !.contact = Some(contact)])
    /\ pc' = [pc EXCEPT ![a] = "get_sha"]
    /\ UNCHANGED authVars
    /\ UNCHANGED formVars
    /\ UNCHANGED << impl, files, images, commits, faults, resp, tasks,
                    activity, loaded >>

(***************************************************************************)
(* Spec: the projects page under both applications, two admins, with the   *)
(* orphan-image cleanup and upstream failures.                             *)
(***************************************************************************)
Next ==
    \E a \in Admins :
        \/ get_projects(a)
        \/ save_projects(a)
        \/ save_get_file(a)
        \/ save_put(a)
        \/ cleanup_unused_images_list(a)
        \/ cleanup_unused_images_delete(a)
        \/ log_activity(a)
        \/ router_save_projects(a)
        \/ delete_image_get_sha(a)
        \/ delete_image_delete(a)
        \/ _save_file_get_sha(a)
        \/ _save_file_put(a)

Spec == Init /\ [][Next]_vars

(***************************************************************************)
(* SpecSaves: every save handler (projects, contacts, knowledge category,  *)
(* system instructions), two admins, starting from an empty repository.    *)
(***************************************************************************)
InitState ==
    /\ impl \in {"index", "app"}
    /\ files = [p \in FilePaths |-> AbsentFile]
    /\ loaded = [a \in Admins |-> Some([projects |-> << >>, sha |-> NoSha])]
    /\ images = [n \in ImageNames |-> IF n \in StoredNames THEN 1 ELSE NoSha]
    /\ commits = 1
    /\ faults = 0
    /\ pc = [a \in Admins |-> "idle"]
    /\ rq = [a \in Admins |-> NoRequest]
    /\ resp = [a \in Admins |-> None]
    /\ tasks = [a \in Admins |-> << >>]
    /\ activity = << >>
    /\ nreq = 0
    /\ now = 0
    /\ held = None
    /\ prev = None
    /\ last = None
    /\ comm = [id \in RecordIds |-> None]
    /\ fn = NoGeneration
    /\ gh = NoCall

InitSaves == InitState /\ hist = None

NextSaves ==
    \E a \in Admins :
        \/ save_projects(a)
        \/ save_contacts(a)
        \/ save_knowledge_category(a)
        \/ save_system_instructions(a)
        \/ save_get_file(a)
        \/ save_put(a)
        \/ log_activity(a)
        \/ router_save_projects(a)
        \/ _save_file_get_sha(a)
        \/ _save_file_put(a)

SpecSaves == InitSaves /\ [][NextSaves]_vars

(***************************************************************************)
(* SpecContacts: saves and reads of the contacts file by two admins, in    *)
(* both applications, from an empty repository.                            *)
(***************************************************************************)
NextContacts ==
    \E a \in Admins :
        \/ save_contacts(a)
        \/ provider_save_contacts(a)
        \/ save_get_file(a)
        \/ save_put(a)
        \/ _save_file_get_sha(a)
        \/ _save_file_put(a)
        \/ log_activity(a)
        \/ get_contacts(a)

SpecContacts == InitSaves /\ [][NextContacts]_vars

(***************************************************************************)
(* SpecForms: the handlers that validate their input - image upload,       *)
(* knowledge and projects saves, communication status - in both            *)
(* applications, from an empty repository and one communication record.    *)
(***************************************************************************)
\* a record submitted earlier
Bob == Record("Bob", "bob@x.com", "Hello", "new", 0, 0)

InitForms ==
    /\ impl \in {"index", "app"}
    /\ files = [p \in FilePaths |-> AbsentFile]
    /\ loaded = [a \in Admins |-> Some([projects |-> << >>, sha |-> NoSha])]
    /\ images = [n \in ImageNames |-> IF n \in StoredNames THEN 1 ELSE NoSha]
    /\ commits = 1
    /\ faults = 0
    /\ pc = [a \in Admins |-> "idle"]
    /\ rq = [a \in Admins |-> NoRequest]
    /\ resp = [a \in Admins |-> None]
    /\ tasks = [a \in Admins |-> << >>]
    /\ activity = << >>
    /\ nreq = 0
    /\ now = 0
    /\ held = None
    /\ prev = None
    /\ last = None
    /\ hist = None
    /\ comm = [id \in RecordIds |-> IF id = "r1" THEN Some(Bob) ELSE None]
    /\ fn = NoGeneration
    /\ gh = NoCall

\* the steps of the side-effecting requests of one client session
FormsOf(a) ==
    \/ upload_project_image(a)
    \/ upload_github_save_binary(a)
    \/ upload_list_images(a)
    \/ upload_image_get_sha(a)
    \/ upload_image_put(a)
    \/ save_projects(a)
    \/ save_contacts(a)
    \/ save_knowledge_category(a)
    \/ save_system_instructions(a)
    \/ save_get_file(a)
    \/ save_put(a)
    \/ router_save_projects(a)
    \/ _save_file_get_sha(a)
    \/ _save_file_put(a)
    \/ update_communication_status(a)
    \/ delete_communication(a)
    \/ log_activity(a)

NextForms ==
    \/ submit_communication
    \/ \E a \in Admins : FormsOf(a)

SpecForms == InitForms /\ [][NextForms]_vars

\* one client session at a time: the operator's requests follow one another
Operator == "admin1"

NextSession ==
    \/ submit_communication
    \/ FormsOf(Operator)

SpecSession == InitForms /\ [][NextSession]_vars

(***************************************************************************)
(* Authentication (index.py).  A token is its payload with the key that    *)
(* signed it; time is counted in minutes.                                  *)
(***************************************************************************)
ADMIN_USERNAME == "ADMIN_USERNAME"

sha256(password) == << "sha256", password >>
ADMIN_PASSWORD_HASH == sha256("ADMIN_PASSWORD")

\* a verify_password that accepts every password
verify_password_any(password) == TRUE

\* verify_password: compare_digest of the two hex digests
verify_password(password) == sha256(password) = ADMIN_PASSWORD_HASH

create_token(user_id, role, t) ==
    [sub |-> user_id, uid |-> user_id, role |-> role, iat |-> t,
     exp |-> t + JWT_EXPIRATION_MINUTES, key |-> "JWT_SECRET"]

\* decode_token with verify_exp off
\* a decode_token that keeps a session: it refuses a token that was replaced
\* and a token with which logout was called
decode_token_single_session(token, t) ==
    IF token.key # "JWT_SECRET" THEN [raised |-> 401, payload |-> token]
    ELSE IF token.exp <= t THEN [raised |-> 401, payload |-> token]
    ELSE IF held # None /\ token # held[1] THEN [raised |-> 401, payload |-> token]
    ELSE IF hist # None /\ hist.logout THEN [raised |-> 401, payload |-> token]
    ELSE [raised |-> 0, payload |-> token]

decode_token_noexp(token, t) ==
    IF token.key # "JWT_SECRET" THEN [raised |-> 401, payload |-> token]
    ELSE [raised |-> 0, payload |-> token]

\* decode_token: jwt.decode checks the signature, then that exp is in the
\* future; both failures become HTTPException(401)
decode_token(token, t) ==
    IF token.key # "JWT_SECRET" THEN [raised |-> 401, payload |-> token]
    ELSE IF token.exp <= t THEN [raised |-> 401, payload |-> token]
    ELSE [raised |-> 0, payload |-> token]

Garbage == [sub |-> "", uid |-> "", role |-> "", iat |-> 0, exp |-> 0, key |-> ""]
NoHeader == [scheme |-> "", token |-> Garbage]

\* require_admin: [raised, user, new_token]
require_admin(header, t) ==
    IF header.scheme # "Bearer"
    THEN [raised |-> 401, user |-> Garbage, new_token |-> None]
    ELSE LET d == decode_token(header.token, t)
             user == d.payload
             remaining == user.exp - t
         IN IF d.raised # 0
            THEN [raised |-> d.raised, user |-> Garbage, new_token |-> None]
            ELSE [raised |-> 0, user |-> user,
                  new_token |-> IF remaining < JWT_REFRESH_THRESHOLD_MINUTES
                                THEN Some(create_token(user.uid, user.role, t))
                                ELSE None]

\* add_new_token_header: the header is set once call_next has returned a
\* response; an exception that is no HTTPException passes through call_next
\* to generic_exception_handler, whose response the middleware never sees
add_new_token_header(outcome, new_token) ==
    IF outcome = "Exception" THEN None ELSE new_token

(***************************************************************************)
(* The routes of index.py: whether the handler depends on require_admin    *)
(* and which external store it calls.                                      *)
(***************************************************************************)
Route(n, a, e) == [name |-> n, admin |-> a, external |-> e]

Routes ==
    { Route("root", FALSE, "none"),
      Route("health", FALSE, "none"),
      Route("logout", TRUE, "none"),
      Route("dashboard_stats", TRUE, "db"),
      Route("dashboard_activity", TRUE, "db"),
      Route("dashboard_weekly", TRUE, "db"),
      Route("get_projects", TRUE, "github"),
      Route("save_projects", TRUE, "github"),
      Route("upload_project_image", TRUE, "github"),
      Route("get_contacts", TRUE, "github"),
      Route("save_contacts", TRUE, "github"),
      Route("submit_communication", FALSE, "db"),
      Route("get_communication", TRUE, "db"),
      Route("update_communication_status", TRUE, "db"),
      Route("delete_communication", TRUE, "db"),
      Route("get_knowledge_all", TRUE, "github"),
      Route("get_knowledge_categories", TRUE, "none"),
      Route("get_knowledge_category", TRUE, "github"),
      Route("save_knowledge_category", TRUE, "github"),
      Route("get_system_instructions", TRUE, "github"),
      Route("save_system_instructions", TRUE, "github") }

\* logout without the dependency
DependsExceptLogout(route) == route.admin /\ route.name # "logout"

\* Depends(require_admin) in the handler's signature
DependsOnRequireAdmin(route) == route.admin

\* how a handler can end: it returns, raises an HTTPException (its own 400
\* or the GitHub client's), or raises another exception (a database error,
\* invalid JSON in a stored file, an undecodable image)
Outcomes(route) ==
    CASE route.external = "none" -> {"returned"}
      [] route.external = "db" -> {"returned", "Exception"}
      [] OTHER -> {"returned", "HTTPException", "Exception"}

StatusOf(outcome) ==
    CASE outcome = "returned" -> 200
      [] outcome = "HTTPException" -> 400
      [] OTHER -> 500

\* what a client can put in the Authorization header
Presentable ==
    LET toks == Range(held) \cup Range(prev)
    IN {NoHeader}
       \cup { [scheme |-> "Bearer", token |-> Garbage] }
       \cup { [scheme |-> sc, token |-> tk] : sc \in {"Bearer", "Basic"}, tk \in toks }
       \cup { [scheme |-> "Bearer", token |-> [tk EXCEPT !.key = "forged"]] : tk \in toks }

Answered(route, header, auth, outcome, st, new_token, calls) ==
    [route |-> route.name, admin |-> route.admin, header |-> header,
     auth |-> auth, outcome |-> outcome, status |-> st,
     new_token |-> new_token, calls |-> calls]

mainVars == << impl, files, images, commits, faults, pc, rq, resp, tasks,
               loaded, nreq >>

\* `remaining < timedelta(minutes=JWT_REFRESH_THRESHOLD_MINUTES)` for a token
\* that has not expired: the request falls into the token's refresh window
InRefreshWindow(token, t) ==
    t < token.exp /\ token.exp - t < JWT_REFRESH_THRESHOLD_MINUTES

\* a request to a route other than login; the client sends one request at a
\* time
request(route, header) ==
    /\ last = None
    /\ IF DependsOnRequireAdmin(route)
       THEN LET r == require_admin(header, now)
            IN IF r.raised # 0
               THEN last' = Some(Answered(route, header, "rejected", "HTTPException",
                                          r.raised, None, "none"))
               ELSE \E o \in Outcomes(route) :
                       LET x == add_new_token_header(o, r.new_token)
                       IN last' = Some(Answered(route, header, "accepted", o,
                                                StatusOf(o), x, route.external))
       ELSE \E o \in Outcomes(route) :
               last' = Some(Answered(route, header, "public", o, StatusOf(o),
                                     None, route.external))
    /\ hist' = IF /\ hist # None
                  /\ DependsOnRequireAdmin(route)
                  /\ require_admin(header, now).raised = 0
                  /\ held # None /\ header.token = held[1]
               THEN [window |-> hist.window \/ InRefreshWindow(header.token, now),
                     logout |-> hist.logout \/ route.name = "logout"]
               ELSE hist
    /\ UNCHANGED << now, held, prev, activity >>
    /\ UNCHANGED mainVars
    /\ UNCHANGED formVars

\* POST /api/v1/auth/login
\* LoginRequest, the body of a login, and whether the activity-log write of
\* the login raised
LoginRequest(username, password, log_failed) ==
    [username |-> username, password |-> password, log_failed |-> log_failed]

login(username, password) ==
    /\ last = None
    /\ Len(activity) < MaxLogins
    /\ IF username # ADMIN_USERNAME \/ ~verify_password(password)
       THEN /\ last' = Some(LoginRequest(username, password, FALSE) @@
                            Answered(Route("login", FALSE, "none"), NoHeader, "public",
                                     "HTTPException", 401, None, "none"))
            /\ UNCHANGED activity
       ELSE LET token == create_token(ADMIN_USERNAME, "admin", now)
            IN \E fault \in BOOLEAN :
                  /\ activity' = IF fault THEN activity
                                 ELSE Append(activity, [type |-> "login",
                                                        user_id |-> ADMIN_USERNAME])
                  /\ last' = Some(LoginRequest(username, password, fault) @@
                                  Answered(Route("login", FALSE, "db"), NoHeader, "public",
                                           "returned", 200, Some(token), "db"))
    /\ UNCHANGED << now, held, prev, hist >>
    /\ UNCHANGED mainVars
    /\ UNCHANGED formVars

\* the client reads the response and keeps a token it is sent (the login
\* response's token, or the X-New-Token header)
receive ==
    /\ last # None
    /\ LET new_token == last[1].new_token
       IN IF new_token = None THEN UNCHANGED << held, prev, hist >>
          ELSE /\ held' = new_token
               /\ prev' = held
               /\ hist' = IF hist = None THEN None ELSE NoHistory
    /\ last' = None
    /\ UNCHANGED << now, activity >>
    /\ UNCHANGED mainVars
    /\ UNCHANGED formVars

\* a minute passes between two exchanges
Tick ==
    /\ last = None
    /\ now < MaxTime
    /\ now' = now + 1
    /\ UNCHANGED << held, prev, last, activity, hist >>
    /\ UNCHANGED mainVars
    /\ UNCHANGED formVars

InitAuth == InitSaves /\ impl = "index"

NextAuth ==
    \/ \E route \in Routes : \E header \in Presentable : request(route, header)
    \/ \E username \in {ADMIN_USERNAME, "guest"} :
         \E password \in {"ADMIN_PASSWORD", "guess"} : login(username, password)
    \/ receive
    \/ Tick

SpecAuth == InitAuth /\ [][NextAuth]_vars

(***************************************************************************)
(* One client of index.py that presents only tokens it was issued, the one *)
(* it holds or the one that was replaced, with what happened to the token  *)
(* it holds recorded in hist.                                              *)
(***************************************************************************)
Bearer(token) == [scheme |-> "Bearer", token |-> token]

InitTokens == InitState /\ impl = "index" /\ hist = NoHistory

NextTokens ==
    \/ \E route \in Routes :
         \E token \in Range(held) \cup Range(prev) : request(route, Bearer(token))
    \/ \E username \in {ADMIN_USERNAME, "guest"} :
         \E password \in {"ADMIN_PASSWORD", "guess"} : login(username, password)
    \/ receive
    \/ Tick

SpecTokens == InitTokens /\ [][NextTokens]_vars


(***************************************************************************)
(* SpecComm: the communication collection of index.py under submissions,   *)
(* status updates and deletions, with the clock.                           *)
(***************************************************************************)
InitComm == InitForms /\ impl = "index"

NextComm ==
    \/ submit_communication
    \/ Tick
    \/ update_communication_status(Operator)
    \/ delete_communication(Operator)
    \/ log_activity(Operator)

SpecComm == InitComm /\ [][NextComm]_vars

\* ---------------------------------------------------------------------
\* Filename generation. Texts are sequences of one-character strings.
\* ---------------------------------------------------------------------

\* project names a client supplies
ProjectNames == { <<"A">>, <<"b", "_">>, <<"_", "!">>, <<"A", " ", "b">> }

\* str.lower on the characters in use
lower(c) == IF c = "A" THEN "a" ELSE c

\* [a-z0-9], [a-z0-9_-] on the characters in use
AlphaNumeric == {"a", "b", "0", "f"}
FilenameCharacters == AlphaNumeric \cup {"_", "-"}

RECURSIVE Keep(_, _)
\* re.sub(r'[^...]', '', name)
Keep(name, class) ==
    IF name = << >> THEN << >>
    ELSE IF Head(name) \in class THEN <<Head(name)>> \o Keep(Tail(name), class)
    ELSE Keep(Tail(name), class)

RECURSIVE Collapse(_, _)
\* re.sub(r'_+', '_', name)
Collapse(name, c) ==
    IF Len(name) < 2 THEN name
    ELSE IF Head(name) = c /\ name[2] = c THEN Collapse(Tail(name), c)
    ELSE <<Head(name)>> \o Collapse(Tail(name), c)

RECURSIVE Strip(_, _)
\* str.strip(c)
Strip(name, c) ==
    IF name = << >> THEN << >>
    ELSE IF Head(name) = c THEN Strip(Tail(name), c)
    ELSE IF name[Len(name)] = c THEN Strip(SubSeq(name, 1, Len(name) - 1), c)
    ELSE name

\* sanitize_filename
sanitize_filename(name) ==
    LET lowered == [i \in 1..Len(name) |-> lower(name[i])]
        kept == Keep(lowered, FilenameCharacters)
        stripped == Strip(Collapse(kept, "_"), "_")
    IN IF stripped # << >> THEN stripped ELSE <<"project">>

RECURSIVE Dashes(_)
\* re.sub(r'[^a-z0-9]+', '-', name)
Dashes(name) ==
    IF name = << >> THEN << >>
    ELSE IF Head(name) \in AlphaNumeric THEN <<Head(name)>> \o Dashes(Tail(name))
    ELSE IF Len(name) > 1 /\ name[2] \notin AlphaNumeric THEN Dashes(Tail(name))
    ELSE <<"-">> \o Dashes(Tail(name))

\* the slug of generate_image_filename (names here are shorter than 30)
slug(name) == Strip(Dashes([i \in 1..Len(name) |-> lower(name[i])]), "-")

\* generate_random_uid: secrets.token_urlsafe(8)[:8], two of its values
token_urlsafe == { <<"0">>, <<"Z">> }

\* secrets.token_hex(8): twice as long, two of its values
token_hex_8 == { <<"0", "0">>, <<"f", "f">> }

\* secrets.token_hex(4), two of its values
token_hex_4 == { <<"0">>, <<"f">> }

\* f"{sanitized_name}_{uid}.webp"
Filename(sanitized_name, uid) == sanitized_name \o <<"_">> \o uid \o <<".webp">>

\* the filenames generate_unique_filename can be given as existing ones:
\* sets of names it may draw for the project
ExistingSets(project_name) ==
    SUBSET { Filename(sanitize_filename(project_name), uid) :
                 uid \in token_urlsafe \cup token_hex_8 }

\* `for attempt in range(10)`
range == 10

\* a membership test that finds nothing
not_in_existing_names_set(filename, existing_names_set) == FALSE

\* `filename not in existing_names_set`, negated
in_existing_names_set(filename, existing_names_set) ==
    filename \in existing_names_set

namesFrame == << impl, files, images, commits, faults, pc, rq, resp, tasks,
                 activity, loaded, nreq, now, held, prev, last, hist, comm, gh >>

\* the call generate_unique_filename(projectName, existing_images)
generate_unique_filename(project_name, existing_filenames) ==
    /\ impl = "app"
    /\ fn.state = "idle"
    /\ fn' = [NoGeneration EXCEPT !.state = "loop",
                                  !.project_name = project_name,
                                  !.existing = existing_filenames]
    /\ UNCHANGED namesFrame

\* one pass of the loop: draw a uid, return the name unless it is taken
generate_unique_filename_attempt ==
    /\ fn.state = "loop"
    /\ fn.attempt < range
    /\ \E uid \in token_urlsafe :
          LET filename == Filename(sanitize_filename(fn.project_name), uid)
          IN fn' = [fn EXCEPT !.attempt = @ + 1,
                              !.uid = uid,
                              !.state = IF in_existing_names_set(filename, fn.existing)
                                        THEN "loop" ELSE "returned",
                              !.filename = IF in_existing_names_set(filename, fn.existing)
                                           THEN << >> ELSE filename]
    /\ UNCHANGED namesFrame

\* after the loop: a name with a token_hex(8) suffix is returned as it is
generate_unique_filename_fallback ==
    /\ fn.state = "loop"
    /\ fn.attempt = range
    /\ \E uid \in token_hex_8 :
          fn' = [fn EXCEPT !.uid = uid,
                           !.state = "returned",
                           !.fallback = TRUE,
                           !.filename = Filename(sanitize_filename(fn.project_name), uid)]
    /\ UNCHANGED namesFrame

\* index.py: generate_image_filename(project_name), no look at existing names
generate_image_filename(project_name) ==
    /\ impl = "index"
    /\ fn.state = "idle"
    /\ \E unique \in token_hex_4 :
          fn' = [NoGeneration EXCEPT !.state = "returned",
                                     !.project_name = project_name,
                                     !.uid = unique,
                                     !.filename = slug(project_name) \o <<"-">>
                                                     \o unique \o <<".webp">>]
    /\ UNCHANGED namesFrame

InitNames == InitForms

NextNames ==
    \/ \E project_name \in ProjectNames :
          \E existing \in ExistingSets(project_name) :
             generate_unique_filename(project_name, existing)
    \/ generate_unique_filename_attempt
    \/ generate_unique_filename_fallback
    \/ \E project_name \in ProjectNames : generate_image_filename(project_name)

SpecNames == InitNames /\ [][NextNames]_vars

\* the function runs to its end once called
SpecNamesFair == SpecNames /\ WF_vars(NextNames)

\* ---------------------------------------------------------------------
\* The GitHub client on its own: one call, one upstream reply.
\* ---------------------------------------------------------------------

\* upstream statuses; 0 stands for a transport failure (httpx.RequestError)
ClientStatuses == {0, 200, 201, 400, 401, 403, 404, 409, 422, 429, 500, 502, 503}

\* the replies: a success carries content and a sha; rate tells whether the
\* reply's message mentions a rate limit
ClientReplies ==
    { [status |-> st, content |-> << >>, sha |-> NoSha, rate |-> rate] :
          st \in ClientStatuses \ {200, 201}, rate \in BOOLEAN }
    \cup { [status |-> st, content |-> HostLines(b64encode(TextBody), 0),
            sha |-> sha, rate |-> rate] :
               st \in {200, 201}, sha \in 1..2, rate \in BOOLEAN }

Methods == {"GET", "PUT", "DELETE"}

clientFrame == << impl, files, images, commits, faults, pc, rq, resp, tasks,
                  activity, loaded, nreq, now, held, prev, last, hist, comm, fn >>

\* index.py: a call of github_request and what its caller gets
github_request_call(method, reply) ==
    /\ impl = "index"
    /\ LET r == github_request(reply)
       IN gh' = [state |-> "called", method |-> method, reply |-> reply,
                 error |-> IF r.raised # 0 THEN "HTTPException" ELSE "none",
                 status |-> r.raised,
                 absent |-> r.raised = 0 /\ r.result = None]
    /\ UNCHANGED clientFrame

\* the package application: a call of GitHubProvider._get_file; GitHubError
\* is built from a message alone, and httpx's own error is not caught
_get_file_call(reply) ==
    /\ impl = "app"
    /\ LET r == _get_file(reply)
       IN gh' = [state |-> "called", method |-> "GET", reply |-> reply,
                 error |-> IF ~r.raised THEN "none"
                           ELSE IF reply.status = 0 THEN "RequestError"
                           ELSE "GitHubError",
                 status |-> 0,
                 absent |-> ~r.raised /\ r.sha = NoSha]
    /\ UNCHANGED clientFrame

InitClient == InitForms

NextClient ==
    \/ \E method \in Methods : \E reply \in ClientReplies :
          github_request_call(method, reply)
    \/ \E reply \in ClientReplies : _get_file_call(reply)

SpecClient == InitClient /\ [][NextClient]_vars

(***************************************************************************)
(* Properties.                                                             *)
(***************************************************************************)
SaveOf(a) == rq[a]
Answer(a) == resp[a][1]

\* C1, as stated: when two admins start from the same revision and both
\* save the projects file, the second save is rejected - the two saves
\* never both succeed.
C1_BothSavesSucceed ==
    \A a, b \in Admins :
        ~ /\ a # b
          /\ SaveOf(a).kind = "save_projects" /\ SaveOf(b).kind = "save_projects"
          /\ SaveOf(a).base = SaveOf(b).base
          /\ SaveOf(a).putOk /\ SaveOf(b).putOk

\* C1, amended: a save whose PUT carries a revision that is not the file's
\* current one (the file was written between this save's read and its PUT)
\* is rejected by the host: the file is left as it was, the caller gets an
\* error status, and the save sends no further PUT.  (A save that starts
\* after the other has committed reads the new revision and overwrites.)
C1_StaleWriteRejected ==
    \A a \in Admins :
        (SaveOf(a).puts > 0 /\ SaveOf(a).putSha # SaveOf(a).putHostSha) =>
            /\ ~SaveOf(a).putOk
            /\ ~SaveOf(a).putChanged
            /\ SaveOf(a).puts = 1
            /\ resp[a] # None
            /\ Answer(a).kind = SaveOf(a).kind
            /\ Answer(a).status >= 400

\* C1 witness: both admins read revision r, one committed, the other's PUT
\* with r was answered 409 and the caller got that status.
C1_Witness ==
    \E a, b \in Admins :
        /\ a # b
        /\ SaveOf(a).putOk /\ SaveOf(a).kind = "save_projects"
        /\ SaveOf(b).kind = "save_projects"
        /\ SaveOf(b).puts = 1 /\ SaveOf(b).putStatus = 409
        /\ SaveOf(b).putSha = SaveOf(a).putSha
        /\ resp[b] # None /\ Answer(b).status = 409

\* C2: a successful projects read of a file that a successful save wrote
\* returns the list that save was given, the empty list included.
C2_RoundTrip ==
    \A a \in Admins :
        (/\ resp[a] # None
         /\ Answer(a).kind = "get_projects"
         /\ Answer(a).status = 200
         /\ Answer(a).present) => Answer(a).projects = Answer(a).origin

\* C2 witness: a list of two projects was saved in this run (the commit
\* read back is not the initial one) and read back equal.
C2_Witness ==
    \E a \in Admins :
        /\ resp[a] # None
        /\ Answer(a).kind = "get_projects"
        /\ Answer(a).status = 200
        /\ Answer(a).commit > 1
        /\ Answer(a).origin = << pB, pA >>
        /\ Answer(a).projects = << pB, pA >>

\* the empty list saved in this run and read back
C2_WitnessEmpty ==
    \E a \in Admins :
        /\ resp[a] # None
        /\ Answer(a).kind = "get_projects"
        /\ Answer(a).status = 200
        /\ Answer(a).commit > 1
        /\ Answer(a).origin = << >>
        /\ Answer(a).projects = << >>

Asked == last[1]
Genuine(header) == header.scheme = "Bearer" /\ header.token.key = "JWT_SECRET"

\* C3: a token issued for the configured credential is accepted by
\* require_admin at every time before its expiry (its issue time plus
\* JWT_EXPIRATION_MINUTES) and rejected with 401 at every time after it.
C3_AcceptedUntilExpiry ==
    (last # None /\ Asked.admin /\ Genuine(Asked.header)) =>
        LET expiry == Asked.header.token.iat + JWT_EXPIRATION_MINUTES
        IN /\ now < expiry => Asked.auth = "accepted"
           /\ now > expiry => (Asked.auth = "rejected" /\ Asked.status = 401)
           /\ Asked.header.token.sub = ADMIN_USERNAME

\* C3 witness: the token the client holds, presented after its expiry, was
\* answered 401.
C3_Witness ==
    /\ last # None /\ held # None
    /\ Asked.admin
    /\ Asked.header = [scheme |-> "Bearer", token |-> held[1]]
    /\ now > held[1].iat + JWT_EXPIRATION_MINUTES
    /\ Asked.status = 401

\* the same token, presented in the last minute before its expiry, was accepted
C3_WitnessAccepted ==
    /\ last # None /\ held # None
    /\ Asked.admin
    /\ Asked.header = [scheme |-> "Bearer", token |-> held[1]]
    /\ now = held[1].iat + JWT_EXPIRATION_MINUTES - 1
    /\ Asked.auth = "accepted"

\* C4, as stated: every authenticated request whose token has less than
\* JWT_REFRESH_THRESHOLD_MINUTES left is answered with an X-New-Token of
\* full duration for the same uid and role, and every other authenticated
\* request with none.
C4_RefreshOnEveryRequest ==
    (last # None /\ Asked.auth = "accepted") =>
        LET token == Asked.header.token
            remaining == token.exp - now
        IN IF remaining < JWT_REFRESH_THRESHOLD_MINUTES
           THEN /\ Asked.new_token # None
                /\ Asked.new_token[1].uid = token.uid
                /\ Asked.new_token[1].role = token.role
                /\ Asked.new_token[1].exp = now + JWT_EXPIRATION_MINUTES
           ELSE Asked.new_token = None

C10_WitnessNoHeader ==
    /\ last # None
    /\ Asked.route = "logout"
    /\ Asked.header = NoHeader
    /\ Asked.status = 401

\* the image filenames a project list references through imageUrl
ImageUrlNames(ps) ==
    { LastSegment(Get(ps[i], "imageUrl")) :
        i \in { j \in 1..Len(ps) : Truthy(Get(ps[j], "imageUrl")) } }

\* a projects save that has succeeded and whose work is all done
SaveDone(a) ==
    /\ SaveOf(a).kind = "save_projects"
    /\ SaveOf(a).putOk
    /\ pc[a] = "idle"
    /\ resp[a] # None /\ Answer(a).kind = "save_projects" /\ Answer(a).status = 200

\* C5, as stated: once a successful projects save and its cleanup are done
\* and no list or delete call has failed, every image the old list
\* references through imageUrl and the new list does not is gone from the
\* image store.
C5_OrphansDeleted ==
    \A a \in Admins :
        (SaveDone(a) /\ SaveOf(a).oldProjects # None /\ ~SaveOf(a).cleanFail) =>
            \A name \in ImageUrlNames(SaveOf(a).oldProjects[1])
                           \ ImageUrlNames(SaveOf(a).projects) :
                name \in ImageNames => images[name] = NoSha

\* C6, as stated: no image is deleted before the projects PUT of the same
\* save has returned success.
C6_NoDeleteBeforePut ==
    \A a \in Admins : ~SaveOf(a).delBeforePut

\* C7: a failure while listing or deleting orphaned images does not change
\* what the projects save does: the save still sends its PUT, and the caller
\* gets the success response exactly when that PUT was accepted, with the
\* file then holding the new list.
C7_CleanupFailureNotSurfaced ==
    \A a \in Admins :
        (SaveOf(a).kind = "save_projects" /\ SaveOf(a).cleanFail /\ pc[a] = "idle") =>
            /\ SaveOf(a).puts = 1
            /\ resp[a] # None /\ Answer(a).kind = "save_projects"
            /\ Answer(a).status = 200 <=> SaveOf(a).putOk
            /\ SaveOf(a).putOk => SaveOf(a).putChanged

\* C7 witness: a delete of the package application's cleanup failed and
\* the save went on to succeed.
C7_Witness ==
    \E a \in Admins :
        /\ impl = "app"
        /\ SaveDone(a)
        /\ SaveOf(a).cleanFail
        /\ SaveOf(a).dels > 0
        /\ files[ProjectsPath].origin = SaveOf(a).projects

\* the same in index.py: the background cleanup failed after the answer
C7_WitnessIndex ==
    \E a \in Admins :
        impl = "index" /\ SaveDone(a) /\ SaveOf(a).cleanFail

\* C8, as stated: every PUT carries the sha the handler's read returned,
\* and goes without one only when that read found the file absent.
C8_WritesConditioned ==
    \A a \in Admins : ~SaveOf(a).unconditioned

Answered_(a) ==
    /\ pc[a] = "idle"
    /\ resp[a] # None
    /\ Answer(a).kind = SaveOf(a).kind

\* C11: a request refused for its input (a disallowed image type, an
\* oversize image, an unknown knowledge category, projects that is not a
\* list, a status outside the enum) is answered 400 or 422 and has called
\* neither the file host nor the database; and an upload whose file type or
\* size the application does not allow is refused that way.
C11_ValidationBeforeCalls ==
    \A a \in Admins :
        LET r == SaveOf(a)
            limit == IF impl = "index" THEN MAX_IMAGE_SIZE ELSE service_MAX_IMAGE_SIZE
            type_allowed == IF impl = "index" THEN r.file.ext \in ALLOWED_EXTENSIONS
                            ELSE r.file.content_type \in ALLOWED_MIME_TYPES
        IN /\ r.input \in {"disallowed_type", "oversize", "invalid_category",
                           "projects_not_a_list", "invalid_status"} =>
                 /\ r.calls = 0
                 /\ r.puts = 0 /\ r.dels = 0 /\ ~r.wrote
                 /\ tasks[a] = << >>
                 /\ Answered_(a)
                 /\ Answer(a).status \in {400, 422}
           /\ (r.kind = "upload_project_image"
               /\ (~type_allowed \/ r.file.mib > limit)) =>
                 r.input \in {"disallowed_type", "oversize"}

\* C11 witness: an upload of 3 MiB was refused by the package application
\* (2 MiB limit) with 400 and no call.
C11_Witness ==
    \E a \in Admins :
        /\ impl = "app"
        /\ SaveOf(a).kind = "upload_project_image"
        /\ SaveOf(a).file.mib = 3
        /\ SaveOf(a).input = "oversize"
        /\ SaveOf(a).calls = 0
        /\ Answered_(a) /\ Answer(a).status = 400

\* a knowledge save for an unknown category was refused with no call
C11_WitnessCategory ==
    \E a \in Admins :
        /\ SaveOf(a).kind = "save_knowledge_category"
        /\ SaveOf(a).input = "invalid_category"
        /\ SaveOf(a).calls = 0
        /\ Answered_(a) /\ Answer(a).status = 400

\* the primary write of the request went through
PrimaryWritten(a) == SaveOf(a).putOk \/ SaveOf(a).wrote

\* C12, as stated: every side-effecting admin action that has completed
\* successfully has produced exactly one activity-log record (granted that
\* the activity-log write itself did not fail).
C12_OneRecordPerAction ==
    \A a \in Admins :
        (/\ Answered_(a)
         /\ Answer(a).status = 200
         /\ PrimaryWritten(a)
         /\ ~SaveOf(a).logFail) => SaveOf(a).logged = 1

UpdateStep(a, id) ==
    /\ SaveOf(a)' # SaveOf(a)
    /\ SaveOf(a)'.kind = "update_communication_status"
    /\ SaveOf(a)'.record = id
    /\ nreq' # nreq

\* C14: a status update on record r changes only r's status and
\* updated_at: r's name, email, message and created_at keep their values,
\* and every other communication record is as it was.
C14_UpdateFrame ==
    [][\A a \in Admins : \A id \in RecordIds :
          UpdateStep(a, id) =>
             /\ \A other \in RecordIds \ {id} : comm'[other] = comm[other]
             /\ (comm[id] = None) <=> (comm'[id] = None)
             /\ comm[id] # None =>
                  /\ comm'[id][1].name = comm[id][1].name
                  /\ comm'[id][1].email = comm[id][1].email
                  /\ comm'[id][1].message = comm[id][1].message
                  /\ comm'[id][1].created_at = comm[id][1].created_at]_vars

\* C14 witness: Ana's record, submitted and later marked done, kept its
\* fields and its created_at; Bob's record is as it was.
C14_Witness ==
    /\ comm["r1"] = Some(Bob)
    /\ comm["r2"] # None
    /\ comm["r2"][1].name = "Ana"
    /\ comm["r2"][1].email = "ana@x.com"
    /\ comm["r2"][1].message = "Hi"
    /\ comm["r2"][1].status = "done"
    /\ comm["r2"][1].updated_at > comm["r2"][1].created_at

\* C15: every communication record's status is new, done or dismissed; a
\* record that appears has status new; and a status update with another
\* value is answered 422 and leaves the collection as it was.
C15_StatusEnum ==
    /\ [](\A id \in RecordIds :
            comm[id] # None => comm[id][1].status \in {"new", "done", "dismissed"})
    /\ [][/\ \A id \in RecordIds :
               (comm[id] = None /\ comm'[id] # None) => comm'[id][1].status = "new"
          /\ \A a \in Admins : \A id \in RecordIds :
               (UpdateStep(a, id)
                /\ SaveOf(a)'.status \notin {"new", "done", "dismissed"}) =>
                   /\ comm' = comm
                   /\ resp'[a] # None /\ resp'[a][1].status = 422]_vars

\* C15 witness: an update of Bob's record to "archived" was answered 422
\* and the record still has status new.
C15_Witness ==
    \E a \in Admins :
        /\ SaveOf(a).kind = "update_communication_status"
        /\ SaveOf(a).record = "r1"
        /\ SaveOf(a).status = "archived"
        /\ Answered_(a) /\ Answer(a).status = 422
        /\ comm["r1"] = Some(Bob)

\* the filename an entry of a cleanup's work list stands for
ImageOf(entry) == IF impl = "app" THEN LastSegment(entry) ELSE entry

\* the image filenames a's save set out to delete
SetOutToDelete(a) ==
    IF SaveOf(a).oldProjects = None THEN {}
    ELSE IF impl = "app"
    THEN { LastSegment(u) : u \in _cleanup_deleted_images_to_delete(
                                      SaveOf(a).projects, SaveOf(a).oldProjects[1]) }
    ELSE cleanup_unused_images_to_delete(SaveOf(a).projects, SaveOf(a).oldProjects[1])

C19_LongerEdgeCapped ==
    \A a \in Admins :
        LET r == SaveOf(a)
            limit == IF impl = "index" THEN MAX_IMAGE_SIZE ELSE service_MAX_IMAGE_SIZE
        IN (/\ r.kind = "upload_project_image"
            /\ r.input = "ok"
            /\ r.file.decodable
            /\ r.file.mib <= limit) =>
               /\ r.size # << 0, 0 >>
               /\ Max(r.size[1], r.size[2]) <= max_size
\* the step is a login
LoginStep == last = None /\ last' # None /\ last'[1].route = "login"

\* C20: a login is answered with a token exactly when the username is the
\* configured one and the sha256 of the password is the configured hash; a
\* failed login is answered 401 with no token and adds no activity record;
\* a successful login is answered 200 with its token also when the write of
\* its activity record failed, and otherwise adds one login record.
C20_LoginIssuesToken ==
    /\ []((last # None /\ Asked.route = "login") =>
            LET match == /\ Asked.username = ADMIN_USERNAME
                         /\ sha256(Asked.password) = ADMIN_PASSWORD_HASH
            IN /\ (Asked.new_token # None) <=> match
               /\ ~match => (Asked.status = 401 /\ Asked.new_token = None)
               /\ match => (/\ Asked.status = 200
                            /\ Asked.new_token[1].uid = ADMIN_USERNAME
                            /\ Asked.new_token[1].iat = now))
    /\ [][LoginStep =>
            /\ last'[1].status = 401 => activity' = activity
            /\ (last'[1].status = 200 /\ last'[1].log_failed) => activity' = activity
            /\ (last'[1].status = 200 /\ ~last'[1].log_failed) =>
                  /\ Len(activity') = Len(activity) + 1
                  /\ activity'[Len(activity')].type = "login"]_vars

\* C20 witness: a login with the right credentials whose activity-log write
\* failed was answered with a token, and there is no activity record.
C20_Witness ==
    /\ last # None
    /\ Asked.route = "login"
    /\ Asked.log_failed
    /\ Asked.status = 200
    /\ Asked.new_token # None
    /\ activity = << >>

\* a login with the right username and a wrong password was answered 401
\* without a token
C20_WitnessFailed ==
    /\ last # None
    /\ Asked.route = "login"
    /\ Asked.username = ADMIN_USERNAME
    /\ Asked.password = "guess"
    /\ Asked.status = 401
    /\ Asked.new_token = None
    /\ activity = << >>
\* the upload's file is outside what the application declares as allowed:
\* its extension or (in the package application) its content type is not on
\* the allow-list, or it is larger than the ceiling
OutsideAllowList(file) ==
    IF impl = "index"
    THEN file.ext \notin ALLOWED_EXTENSIONS \/ file.mib > MAX_IMAGE_SIZE
    ELSE \/ file.ext \notin service_ALLOWED_EXTENSIONS
         \/ file.content_type \notin ALLOWED_MIME_TYPES
         \/ file.mib > service_MAX_IMAGE_SIZE

\* C21, as stated: an upload whose content type or filename extension is
\* outside the allow-list, or whose size is over the ceiling, is refused
\* with 400 and stores nothing.
C21_UploadRejected ==
    \A a \in Admins :
        (SaveOf(a).kind = "upload_project_image" /\ OutsideAllowList(SaveOf(a).file)) =>
            /\ SaveOf(a).input \in {"disallowed_type", "oversize"}
            /\ SaveOf(a).puts = 0
            /\ Answered_(a) /\ Answer(a).status = 400
\* C22, as stated: a 404 reply gives the absent result and no error; 401
\* raises an error with status 401; 403 raises 429 when the message
\* mentions a rate limit and 403 otherwise; any other non-success status
\* raises an error with that status; a transport failure raises 500.
C22_StatusMapping ==
    gh.state = "called" =>
        LET st == gh.reply.status
            raises(n) == gh.error # "none" /\ gh.status = n
        IN /\ st = 404 => (gh.error = "none" /\ gh.absent)
           /\ st = 401 => raises(401)
           /\ st = 403 => raises(IF gh.reply.rate THEN 429 ELSE 403)
           /\ st = 0 => raises(500)
           /\ (st >= 400 /\ st \notin {401, 403, 404}) => raises(st)
           /\ st \in {200, 201} => (gh.error = "none" /\ ~gh.absent)
\* the request of a ran into an exception that is not an HTTPException:
\* Pillow could not open the uploaded file, or (index.py) the save's PUT was
\* answered 404 and result.get was called on None
UnexpectedException(a) ==
    \/ SaveOf(a).kind = "upload_project_image" /\ SaveOf(a).input = "undecodable"
    \/ /\ impl = "index"
       /\ SaveOf(a).kind \in {"save_projects", "save_contacts",
                              "save_knowledge_category", "save_system_instructions"}
       /\ SaveOf(a).puts = 1 /\ SaveOf(a).putStatus = 404

\* C23, as stated: a request whose handler raised an exception that is not
\* a deliberate HTTP error is answered 500 with the fixed generic message,
\* which contains no text of the exception.
C23_GenericError ==
    \A a \in Admins :
        (Answered_(a) /\ UnexpectedException(a)) =>
            /\ Answer(a).status = 500
            /\ SaveOf(a).message = generic_exception_handler.message
            /\ \A i \in 1..Len(SaveOf(a).message) : SaveOf(a).message[i] # ExceptionText
\* the image filenames the projects of a list refer to, by imageUrl or by
\* image
Referenced(ps) == ImageUrlNames(ps) \cup index_images(ps)

\* C24, as stated: an image leaves the image store only through the cleanup
\* of a projects save whose old list refers to it and whose new list does
\* not.
C24_OnlyDifferenceDeleted ==
    [][\A n \in ImageNames :
          (images[n] # NoSha /\ images'[n] = NoSha) =>
              \E a \in Admins :
                  /\ SaveOf(a)'.dels = SaveOf(a).dels + 1
                  /\ SaveOf(a).oldProjects # None
                  /\ n \in Referenced(SaveOf(a).oldProjects[1])
                  /\ n \notin Referenced(SaveOf(a).projects)]_vars

(***************************************************************************)
(* Sliding renewal and the absence of revocation (index.py), SpecTokens.   *)
(***************************************************************************)
PresentsHeld ==
    /\ last # None /\ held # None
    /\ "admin" \in DOMAIN Asked /\ Asked.admin
    /\ Asked.header = Bearer(held[1])

\* C25: a client that adopts every replacement token and has sent an
\* authenticated request inside the trailing refresh window of the token it
\* holds is never rejected for an expired token: once the held token was
\* accepted inside its window, no later request presenting the held token
\* is rejected.
C25_NeverExpiredWhenRenewing ==
    (PresentsHeld /\ hist.window) => Asked.auth = "accepted"

\* C26: token validity depends only on signature and expiry: a genuine
\* token that has not expired is accepted by every admin route also after
\* it was replaced by a newer token and after logout was called with it.
C26_NoRevocation ==
    \A token \in Range(held) \cup Range(prev) :
        (/\ last # None
         /\ "admin" \in DOMAIN Asked /\ Asked.admin
         /\ Asked.header = Bearer(token)
         /\ now < token.exp
         /\ \/ held # None /\ token # held[1]
            \/ hist.logout) =>
            Asked.auth = "accepted"

\* C26 witness: after a logout with the held token, another admin route
\* accepted the same token.
C26_Witness ==
    /\ PresentsHeld
    /\ hist.logout
    /\ Asked.route # "logout"
    /\ Asked.auth = "accepted"

\* the token that was replaced by a newer one was accepted afterwards
C26_WitnessReplaced ==
    /\ last # None /\ held # None /\ prev # None
    /\ prev[1] # held[1]
    /\ "admin" \in DOMAIN Asked /\ Asked.admin
    /\ Asked.header = Bearer(prev[1])
    /\ Asked.auth = "accepted"


(***************************************************************************)
(* Uploads and the files already in the image directory, SpecForms.        *)
(***************************************************************************)
\* C27: an image upload never replaces an existing file's content: when the
\* generated filename is already present in the image directory at the
\* time of the PUT, the PUT changes nothing and the upload is answered
\* with an error (a PUT the host answers 404 apart: the directory is then
\* not reachable at all).
C27_UploadNeverOverwrites ==
    \A a \in Admins :
        (/\ SaveOf(a).kind = "upload_project_image"
         /\ SaveOf(a).puts = 1
         /\ SaveOf(a).putHostSha # NoSha
         /\ SaveOf(a).putStatus # 404) =>
            /\ ~SaveOf(a).putChanged
            /\ Answered_(a) /\ Answer(a).status >= 400


(***************************************************************************)
(* The contacts file, SpecContacts.                                        *)
(***************************************************************************)
\* C28: contacts round trip: a read of the contacts file that a save of the
\* contact object C wrote last returns C.
C28_ContactsRoundTrip ==
    \A a \in Admins :
        (/\ resp[a] # None
         /\ Answer(a).kind = "get_contacts"
         /\ Answer(a).status = 200
         /\ Answer(a).present) => Answer(a).contact = Answer(a).origin[1]

=============================================================================
